---- MODULE Spec2Model ----
(***************************************************************************)
(* Tiered risk escalation engine of fuels-logistics-ai: the email ETA      *)
(* parser, the knowledge-graph store, the Tier-1 rules engine with its     *)
(* execution gate and Tier-2 tool executor, the escalation router and the  *)
(* staleness monitor.  Each subsystem has its own specification over the   *)
(* shared variables; the variables of the other subsystems stay idle.      *)
(*                                                                         *)
(* Conventions: a nullable column holds None (-1) when unset; timestamps   *)
(* are integers (seconds in the parser, hours elsewhere); scores are held  *)
(* in thousandths, because the code rounds them to three decimals.         *)
(***************************************************************************)
EXTENDS Integers, Sequences, FiniteSets, TLC

VARIABLES
    \* ---- email parser ----
    p_body,      \* the email body, as the match groups the patterns extract
    p_llm,       \* what stage 1 (the language-model call) does for this email
    p_now,       \* now_local(), seconds
    p_sent,      \* sent_date, seconds
    p_pc,        \* "ready" | "done"
    p_eta,       \* parsed timestamp or None
    p_method,    \* "llm" | "regex" | "none"
    p_stage2,    \* TRUE iff _parse_with_regex was run
    p_cand,      \* the time string handed to combine_date_and_time, or NoTime
    p_range,     \* result of extract_time_range, or NoRange
    \* ---- database tables ----
    utcnow,        \* datetime.utcnow(), hours
    carriers,      \* Carrier rows by id
    sites,         \* Site rows by id
    loads,         \* Load rows by id
    escalations,   \* Escalation rows by id
    \* ---- knowledge graph ----
    carrier_stats, \* CarrierStats rows by carrier_id
    site_stats,    \* SiteStats rows by site_id
    kg_op,         \* the knowledge-graph handler that ran last
    \* ---- agent cycle ----
    agents,        \* AIAgent rows by id
    email_log,     \* EmailLog rows, in insertion order
    cyc_pc,        \* position of the cycle: "entry" | "tier1" | "gate" | "tier2" | "finalise"
                   \*   | "except" | "raised" | "done"
    rules_result,  \* the RuleResult of run_rules_check
    tier1_executed,\* what execute_tier1_actions returned
    iteration,     \* calls of the reasoning service made by run_check_cycle
    entry,         \* the entry point that started the cycle: "scheduled" | "manual"
    run_record,    \* the AgentRunHistory row of the cycle
    cyc_error,     \* the phase in which the cycle raised: "none" | "tier1" | "tier2"
    cyc_exit,      \* how the entry point ended: "none" | "returned" | "trapped" | "propagated"
    last_reply,    \* what the last reasoning-service call of the cycle came to
    \* ---- escalation routes and staleness monitor ----
    esc_op,        \* the route or job that ran last
    sweep_outcome, \* "ok" or "raised": how the last staleness sweep ended
    \* ---- concurrent handlers ----
    kg_pc,         \* per knowledge-graph session: "start" | "carrier_loaded" | "site_loaded" | "done"
    kg_load,       \* per session: the load whose delivery it records
    kg_cs,         \* per session: the CarrierStats row as the session loaded it
    kg_ss,         \* per session: the SiteStats row as the session loaded it
    ov_pc,         \* per entry point: position of its cycle, "idle" | "tier1" | "gate"
    ov_result,     \* per entry point: the RuleResult its run_rules_check returned
    ov_done,       \* cycles that have run to the end of the gate
    sched_jobs,    \* the scheduler's agent jobs: agent id -> interval in minutes
    sched_tick,    \* what the last firing of an agent job did: "none" | "ran" | "skipped"
    in_pc,         \* inbound email route: "idle" | "ready" | "processed" | "checked"
    in_last,       \* what the last call of process_inbound_email did
    sw_pc,         \* per staleness sweep: "start" | "query" | "write" | "done"
    sw_found       \* per sweep: the entity it is at and what its existence query returned

parserVars == <<p_body, p_llm, p_now, p_sent, p_pc, p_eta, p_method, p_stage2, p_cand, p_range>>

dbVars == <<carriers, sites, loads, escalations>>

kgVars == <<carrier_stats, site_stats, kg_op>>

agentVars == <<agents, email_log, cyc_pc, rules_result, tier1_executed, iteration,
               entry, run_record, cyc_error, cyc_exit, last_reply>>

escVars == <<esc_op, sweep_outcome>>

kgRaceVars == <<kg_pc, kg_load, kg_cs, kg_ss>>

cycleVars == <<ov_pc, ov_result, ov_done>>

schedVars == <<sched_jobs, sched_tick>>

inboundVars == <<in_pc, in_last>>

sweepVars == <<sw_pc, sw_found>>

procVars == <<kgRaceVars, cycleVars, schedVars, inboundVars, sweepVars>>

vars == <<parserVars, utcnow, dbVars, kgVars, agentVars, escVars, procVars>>

None == -1

\* =========================================================================
\* Email ETA parser  (src/backend/app/utils/email_parser.py)
\* =========================================================================

MAX_ETA_FUTURE_HOURS == 72
MAX_ETA_PAST_HOURS == 1
LLM_NO_RESULT == -2

DAY == 86400
HOUR == 3600

\* A time string: its number of characters, and the values of its first two
\* and last two digits.  "0600" is [len |-> 4, h |-> 6, m |-> 0].
TimeStr(len, h, m) == [len |-> len, h |-> h, m |-> m]
NoTime == TimeStr(0, 0, 0)
NoRange == [start |-> NoTime, end |-> NoTime]

\* f"{hour:02d}{minute:02d}": two digits each unless a value needs three.
fmt_hhmm(hour, minute) ==
    TimeStr((IF hour < 100 THEN 2 ELSE 3) + (IF minute < 100 THEN 2 ELSE 3), hour, minute)

\* normalize_time on a run of len digits with value val: "600" -> "0600".
normalize_time(len, val) ==
    IF len = 3 THEN TimeStr(4, val \div 100, val % 100)
    ELSE TimeStr(len, val \div 100, val % 100)

validate_time_str(t) ==
    /\ t.len = 4
    /\ 0 <= t.h /\ t.h <= 23
    /\ 0 <= t.m /\ t.m <= 59

\* base_date.replace(hour=.., minute=.., second=0, microsecond=0)
replace_hm(dt, hour, minute) == (dt \div DAY) * DAY + hour * HOUR + minute * 60

\* combine_date_and_time without the 72 h future guardrail.
combine_date_and_time_noFutureGuard(base_date, time_str, now) ==
    IF ~validate_time_str(time_str) THEN None
    ELSE LET eta0 == replace_hm(base_date, time_str.h, time_str.m)
             eta  == IF eta0 < now THEN eta0 + DAY ELSE eta0
         IN  IF eta < now - MAX_ETA_PAST_HOURS * HOUR THEN None
             ELSE eta

combine_date_and_time(base_date, time_str, now) ==
    IF ~validate_time_str(time_str) THEN None
    ELSE LET eta0 == replace_hm(base_date, time_str.h, time_str.m)
             eta  == IF eta0 < now THEN eta0 + DAY ELSE eta0
         IN  IF eta > now + MAX_ETA_FUTURE_HOURS * HOUR THEN None
             ELSE IF eta < now - MAX_ETA_PAST_HOURS * HOUR THEN None
             ELSE eta

\* The body after quoted text is stripped and lower-cased, as what the
\* patterns see in it: whether a vague phrase occurs, and one time expression
\* of the given form with its match groups.
\*   "between"     between <n1> and <n2>           (len1/len2 digits each)
\*   "h_h_period"  <n1>-<n2> <per2>
\*   "hm_hm"       <n1>:<mm1> <per1> - <n2>:<mm2> <per2>
\*   "military"    <n1><mm1>                       (4 digits)
\*   "h_mm_period" <n1>:<mm1> <per1>
\*   "h_period"    <n1> <per1>
\*   "none"        no time expression
Body(vague, form, n1, mm1, per1, n2, mm2, per2, len1, len2) ==
    [vague |-> vague, form |-> form, n1 |-> n1, mm1 |-> mm1, per1 |-> per1,
     n2 |-> n2, mm2 |-> mm2, per2 |-> per2, len1 |-> len1, len2 |-> len2]

extract_time_range(b) ==
    IF b.form = "between"
    THEN [start |-> normalize_time(b.len1, b.n1), end |-> normalize_time(b.len2, b.n2)]
    ELSE IF b.form = "h_h_period"
    THEN LET period == b.per2
             start_hour == IF period = "pm" /\ b.n1 # 12 THEN b.n1 + 12
                           ELSE IF period = "am" /\ b.n1 = 12 THEN 0
                           ELSE b.n1
             end_pm     == IF period = "pm" /\ b.n1 # 12 THEN b.n2 + 12 ELSE b.n2
             end_hour   == IF period = "am" /\ end_pm = 12 THEN 0 ELSE end_pm
         IN  [start |-> fmt_hhmm(start_hour, 0), end |-> fmt_hhmm(end_hour, 0)]
    ELSE IF b.form = "hm_hm"
    THEN LET start_hour == IF b.per1 = "pm" /\ b.n1 # 12 THEN b.n1 + 12 ELSE b.n1
             end_hour   == IF b.per2 = "pm" /\ b.n2 # 12 THEN b.n2 + 12 ELSE b.n2
         IN  [start |-> fmt_hhmm(start_hour, b.mm1), end |-> fmt_hhmm(end_hour, b.mm2)]
    ELSE NoRange

to24(hour, period) ==
    IF period = "pm" /\ hour # 12 THEN hour + 12
    ELSE IF period = "am" /\ hour = 12 THEN 0
    ELSE hour

extract_single_time(b) ==
    IF b.form = "military" THEN fmt_hhmm(b.n1, b.mm1)
    ELSE IF b.form = "h_mm_period" THEN fmt_hhmm(to24(b.n1, b.per1), b.mm1)
    ELSE IF b.form = "h_period" THEN fmt_hhmm(to24(b.n1, b.per1), 0)
    ELSE NoTime

\* The time string _parse_with_regex hands to combine_date_and_time.
regex_candidate(b) ==
    IF b.vague THEN NoTime
    ELSE IF extract_time_range(b) # NoRange THEN extract_time_range(b).end
    ELSE extract_single_time(b)

parse_with_regex(b, sent_date, now) ==
    IF regex_candidate(b) = NoTime THEN None
    ELSE combine_date_and_time(sent_date, regex_candidate(b), now)

\* Stage 1.  kind: "no_client" (no API key or package), "api_error" (the call
\* raises), "invalid_json", "other_status" (JSON without a known status, or
\* not an object), "ok_no_time" (status ok without time_24h), "ok" (with the
\* time string t), "vague", "unknown".
Llm(kind, t) == [kind |-> kind, t |-> t]

\* _parse_with_llm falling through to stage 2 when the guardrail rejects its time.
parse_with_llm_guardrailFallsThrough(llm, sent_date, now) ==
    IF llm.kind = "ok"
    THEN IF ~validate_time_str(llm.t) THEN None
         ELSE combine_date_and_time(sent_date, llm.t, now)
    ELSE IF llm.kind \in {"vague", "unknown"} THEN LLM_NO_RESULT
    ELSE None

parse_with_llm(llm, sent_date, now) ==
    IF llm.kind = "ok"
    THEN IF ~validate_time_str(llm.t) THEN None
         ELSE IF combine_date_and_time(sent_date, llm.t, now) = None THEN LLM_NO_RESULT
         ELSE combine_date_and_time(sent_date, llm.t, now)
    ELSE IF llm.kind \in {"vague", "unknown"} THEN LLM_NO_RESULT
    ELSE None

\* parse_eta_from_email_with_method: <<eta, method, stage 2 ran, candidate>>
parse_eta_from_email_with_method(b, llm, sent_date, now) ==
    LET llm_result == parse_with_llm(llm, sent_date, now) IN
    IF llm_result = LLM_NO_RESULT THEN <<None, "llm", FALSE, llm.t>>
    ELSE IF llm_result # None THEN <<llm_result, "llm", FALSE, llm.t>>
    ELSE LET regex_result == parse_with_regex(b, sent_date, now) IN
         <<regex_result, IF regex_result # None THEN "regex" ELSE "none", TRUE,
           regex_candidate(b)>>

\* ---- inputs of the parser specifications ----
Periods == {"am", "pm"}
ClockHours == 1..12

\* Runs of 3 or 4 digits, as <<length, value>>: "600", "0600", "900", "1200", "1400".
BetweenDigits == {<<3, 600>>, <<4, 600>>, <<3, 900>>, <<4, 1200>>, <<4, 1400>>}

\* Every range form, with every clock hour for either bound.
RangeBodies ==
    {Body(FALSE, "between", d1[2], 0, "am", d2[2], 0, "am", d1[1], d2[1]) :
        d1 \in BetweenDigits, d2 \in BetweenDigits}
    \cup {Body(FALSE, "h_h_period", n1, 0, "am", n2, 0, per, 0, 0) :
        n1 \in ClockHours, n2 \in ClockHours, per \in Periods}
    \cup {Body(FALSE, "hm_hm", n1, mm1, per1, n2, mm2, per2, 0, 0) :
        n1 \in ClockHours, n2 \in ClockHours, mm1 \in {15}, mm2 \in {0, 45},
        per1 \in Periods, per2 \in Periods}

CandidateHours == {0, 1, 13, 23, 24, 27}
CandidateMinutes == {0, 46, 60}

ParserBodies ==
    {Body(v, "none", 0, 0, "am", 0, 0, "am", 0, 0) : v \in BOOLEAN}
    \cup {Body(v, "military", h, m, "am", 0, 0, "am", 0, 0) :
             v \in BOOLEAN, h \in {6, 15, 24}, m \in {0, 46}}
    \cup {Body(FALSE, "h_mm_period", h, m, per, 0, 0, "am", 0, 0) :
             h \in {1, 12, 13}, m \in {30, 75}, per \in Periods}
    \cup {Body(FALSE, "h_period", h, 0, per, 0, 0, "am", 0, 0) :
             h \in {3, 12}, per \in Periods}
    \cup {Body(FALSE, "h_h_period", 1, 0, "am", 3, 0, "pm", 0, 0),
          Body(FALSE, "h_h_period", 11, 0, "am", 12, 0, "pm", 0, 0),
          Body(FALSE, "between", 1200, 0, "am", 1400, 0, "am", 4, 4)}

LlmBehaviours ==
    {Llm(k, NoTime) : k \in {"no_client", "api_error", "invalid_json", "other_status",
                             "ok_no_time", "vague", "unknown"}}
    \cup {Llm("ok", TimeStr(4, h, m)) : h \in CandidateHours, m \in CandidateMinutes}
    \cup {Llm("ok", TimeStr(3, 6, 0))}

\* now_local(): shortly after midnight, midday with seconds, late evening.
NowValues == {10 * DAY + 30 * 60, 10 * DAY + 12 * HOUR + 30, 10 * DAY + 23 * HOUR + 46 * 60}
\* sent_date relative to now: the poller passes the receive time, a caller
\* may pass any date.
SentOffsets == {0 - 4 * DAY, 0 - DAY, 0 - HOUR, 0, 2 * DAY, 3 * DAY, 4 * DAY}

ParserIdle ==
    /\ p_body = Body(FALSE, "none", 0, 0, "am", 0, 0, "am", 0, 0)
    /\ p_llm = Llm("no_client", NoTime)
    /\ p_now = 0
    /\ p_sent = 0
    /\ p_pc = "idle"
    /\ p_eta = None
    /\ p_method = "none"
    /\ p_stage2 = FALSE
    /\ p_cand = NoTime
    /\ p_range = NoRange

DbIdle ==
    /\ utcnow = 0
    /\ carriers = <<>>
    /\ sites = <<>>
    /\ loads = <<>>
    /\ escalations = <<>>

KGIdle ==
    /\ carrier_stats = <<>>
    /\ site_stats = <<>>
    /\ kg_op = "idle"

AgentIdle ==
    /\ agents = <<>>
    /\ email_log = <<>>
    /\ cyc_pc = "idle"
    /\ rules_result = [actions |-> <<>>, tier2_flags |-> <<>>, summary |-> "none"]
    /\ tier1_executed = <<>>
    /\ iteration = 0
    /\ entry = "idle"
    /\ run_record = [status |-> "none", error_message |-> "unset", api_calls |-> 0]
    /\ cyc_error = "none"
    /\ cyc_exit = "none"
    /\ last_reply = "none"

KGRaceIdle ==
    /\ kg_pc = <<>>
    /\ kg_load = <<>>
    /\ kg_cs = <<>>
    /\ kg_ss = <<>>

CycleIdle ==
    /\ ov_pc = <<>>
    /\ ov_result = <<>>
    /\ ov_done = 0

SchedIdle ==
    /\ sched_jobs = <<>>
    /\ sched_tick = "none"

NoInbound == [success |-> FALSE, load_id |-> None, escalations |-> 0, at |-> None]

InboundIdle ==
    /\ in_pc = "idle"
    /\ in_last = NoInbound

SweepIdle ==
    /\ sw_pc = <<>>
    /\ sw_found = <<>>

ProcIdle == KGRaceIdle /\ CycleIdle /\ SchedIdle /\ InboundIdle /\ SweepIdle

EscIdle ==
    /\ esc_op = "idle"
    /\ sweep_outcome = "none"

\* ---- specification SpecRange: extract_time_range on every range form ----
InitRange ==
    /\ p_body \in RangeBodies
    /\ p_llm = Llm("no_client", NoTime)
    /\ p_now = 0
    /\ p_sent = 0
    /\ p_pc = "ready"
    /\ p_eta = None
    /\ p_method = "none"
    /\ p_stage2 = FALSE
    /\ p_cand = NoTime
    /\ p_range = NoRange
    /\ DbIdle
    /\ KGIdle
    /\ AgentIdle
    /\ EscIdle
    /\ ProcIdle

ExtractTimeRange ==
    /\ p_pc = "ready"
    /\ p_range' = extract_time_range(p_body)
    /\ p_pc' = "done"
    /\ UNCHANGED <<p_body, p_llm, p_now, p_sent, p_eta, p_method, p_stage2, p_cand, utcnow, dbVars, kgVars, agentVars, escVars, procVars>>

NextRange == ExtractTimeRange

SpecRange == InitRange /\ [][NextRange]_vars

\* ---- specification SpecParser: parse_eta_from_email_with_method ----
InitParser ==
    /\ p_body \in ParserBodies
    /\ p_llm \in LlmBehaviours
    /\ p_now \in NowValues
    /\ p_sent \in {p_now + d : d \in SentOffsets}
    /\ p_pc = "ready"
    /\ p_eta = None
    /\ p_method = "none"
    /\ p_stage2 = FALSE
    /\ p_cand = NoTime
    /\ p_range = NoRange
    /\ DbIdle
    /\ KGIdle
    /\ AgentIdle
    /\ EscIdle
    /\ ProcIdle

ParseEmail ==
    /\ p_pc = "ready"
    /\ LET r == parse_eta_from_email_with_method(p_body, p_llm, p_sent, p_now) IN
        /\ p_eta' = r[1]
        /\ p_method' = r[2]
        /\ p_stage2' = r[3]
        /\ p_cand' = r[4]
    /\ p_pc' = "done"
    /\ UNCHANGED <<p_body, p_llm, p_now, p_sent, p_range, utcnow, dbVars, kgVars, agentVars, escVars, procVars>>

NextParser == ParseEmail

SpecParser == InitParser /\ [][NextParser]_vars

\* =========================================================================
\* Knowledge graph  (src/backend/app/services/knowledge_graph.py)
\* =========================================================================

RING_SIZE == 10
FLAG_THRESHOLD == 400
NEUTRAL_SCORE == 500

Max(a, b) == IF a > b THEN a ELSE b

\* ---- rows of the tables the handlers read (app/models.py) ----
Load(carrier_id, destination_site_id, status, current_eta, updated_at, last_eta_update, last_email_sent) ==
    [carrier_id |-> carrier_id, destination_site_id |-> destination_site_id,
     status |-> status, current_eta |-> current_eta, updated_at |-> updated_at,
     last_eta_update |-> last_eta_update, last_email_sent |-> last_email_sent]

\* false_alarm_notes: resolution_notes holds one of the phrases the rebuild
\* looks for ('false alarm', 'resolved itself', 'no action needed', 'not needed').
Escalation(created_by_agent_id, load_id, site_id, priority, issue_type, status, false_alarm_notes) ==
    [created_by_agent_id |-> created_by_agent_id, load_id |-> load_id, site_id |-> site_id,
     priority |-> priority, issue_type |-> issue_type, status |-> status,
     false_alarm_notes |-> false_alarm_notes]

\* ---- rows of the derived tables ----
\* The CarrierStats and SiteStats classes are imported from app.models but
\* are not part of the sources at hand; the column defaults of a fresh row
\* follow the record descriptions of the specification (counters at zero,
\* neutral score, empty buffers).  avg_delay_hours and
\* avg_response_time_hours are running means that no decision reads; they
\* are left out of the row.
CarrierStatsDefault ==
    [total_deliveries |-> 0, on_time_deliveries |-> 0, late_deliveries |-> 0,
     worst_delay_hours |-> 0, total_eta_requests |-> 0, eta_responses_received |-> 0,
     reliability_score |-> NEUTRAL_SCORE, flagged_unreliable |-> FALSE,
     recent_deliveries |-> <<>>]

SiteStatsDefault ==
    [total_deliveries_received |-> 0, total_escalations |-> 0, false_alarm_count |-> 0,
     false_alarm_rate |-> 0, risk_score |-> 0, recent_events |-> <<>>]

_ensure_carrier_stats(cs, carrier_id) ==
    IF carrier_id \in DOMAIN cs THEN cs ELSE cs @@ (carrier_id :> CarrierStatsDefault)

_ensure_site_stats(ss, site_id) ==
    IF site_id \in DOMAIN ss THEN ss ELSE ss @@ (site_id :> SiteStatsDefault)

\* round(num / den, 3) in thousandths, ties to even as Python's round
\* (num >= 0, den > 0).  On an exact tie the binary float of the code may
\* sit a hair to either side, so the last digit can differ by one there;
\* no tie lies at the 0.4 flag threshold or at the ends of [0, 1].
round3(num, den) ==
    LET q == (1000 * num) \div den
        r == (1000 * num) % den
    IN  IF 2 * r > den THEN q + 1
        ELSE IF 2 * r < den THEN q
        ELSE IF q % 2 = 0 THEN q ELSE q + 1

\* s[-n:]
keep_last_keepsFirst(s, n) == IF Len(s) <= n THEN s ELSE SubSeq(s, 1, n)

keep_last(s, n) == IF Len(s) <= n THEN s ELSE SubSeq(s, Len(s) - n + 1, Len(s))

\* on_time_rate * 0.7 + response_rate * 0.3 as the fraction score_num / score_den
score_num(stats) ==
    IF stats.total_eta_requests > 0
    THEN 7 * stats.on_time_deliveries * stats.total_eta_requests
         + 3 * stats.eta_responses_received * stats.total_deliveries
    ELSE 7 * stats.on_time_deliveries + 3 * stats.total_deliveries

score_den(stats) ==
    IF stats.total_eta_requests > 0
    THEN 10 * stats.total_deliveries * stats.total_eta_requests
    ELSE 10 * stats.total_deliveries

_compute_reliability_score_noClamp(stats) ==
    IF stats.total_deliveries = 0 THEN NEUTRAL_SCORE
    ELSE round3(score_num(stats), score_den(stats))

_compute_reliability_score(stats) ==
    IF stats.total_deliveries = 0 THEN NEUTRAL_SCORE
    ELSE IF score_num(stats) >= score_den(stats) THEN 1000
    ELSE IF score_num(stats) <= 0 THEN 0
    ELSE round3(score_num(stats), score_den(stats))

\* round(min(1.0, real_escalation_rate), 3)
site_risk_score(ss) ==
    LET real == ss.total_escalations - ss.false_alarm_count
        den  == Max(ss.total_deliveries_received, 1)
    IN  IF real >= den THEN 1000 ELSE round3(real, den)

DeliveryEntry(on_time, date, load_id) ==
    [on_time |-> on_time, date |-> date, load_id |-> load_id]

SiteEvent(type, date, ref) == [type |-> type, date |-> date, ref |-> ref]

\* ---- on_load_delivered(load_id); actual_delivery_time defaults to utcnow() ----
on_load_delivered_carrier(cs, load_id, load, actual) ==
    LET ensured  == _ensure_carrier_stats(cs, load.carrier_id)
        row      == ensured[load.carrier_id]
        was_late == load.current_eta # None /\ actual > load.current_eta
        counted  == [row EXCEPT
                        !.total_deliveries = @ + 1,
                        !.late_deliveries = IF was_late THEN @ + 1 ELSE @,
                        !.worst_delay_hours =
                            IF was_late THEN Max(@, actual - load.current_eta) ELSE @,
                        !.on_time_deliveries = IF was_late THEN @ ELSE @ + 1,
                        !.recent_deliveries =
                            keep_last(Append(@, DeliveryEntry(~was_late, actual, load_id)), RING_SIZE)]
        score    == _compute_reliability_score(counted)
    IN  [ensured EXCEPT ![load.carrier_id] =
            [counted EXCEPT !.reliability_score = score,
                            !.flagged_unreliable = score < FLAG_THRESHOLD]]

on_load_delivered_site(ss, load_id, load, actual) ==
    LET ensured == _ensure_site_stats(ss, load.destination_site_id)
    IN  [ensured EXCEPT ![load.destination_site_id] =
            [@ EXCEPT !.total_deliveries_received = @ + 1,
                      !.recent_events =
                          keep_last(Append(@, SiteEvent("delivery", actual, load_id)), RING_SIZE)]]

\* ---- on_escalation_resolved(escalation_id, was_false_alarm) ----
on_escalation_resolved_site(ss, escalation_id, esc, was_false_alarm, at) ==
    LET ensured == _ensure_site_stats(ss, esc.site_id)
        row     == ensured[esc.site_id]
        counted == [row EXCEPT
                        !.total_escalations = @ + 1,
                        !.false_alarm_count = IF was_false_alarm THEN @ + 1 ELSE @]
        rated   == [counted EXCEPT
                        !.false_alarm_rate =
                            round3(counted.false_alarm_count, counted.total_escalations),
                        !.risk_score = site_risk_score(counted)]
    IN  [ensured EXCEPT ![esc.site_id] =
            [rated EXCEPT !.recent_events =
                keep_last(Append(@, SiteEvent("escalation_resolved", at, escalation_id)), RING_SIZE)]]

\* ---- on_eta_email_response(carrier_id) ----
on_eta_email_response(cs, carrier_id) ==
    LET ensured == _ensure_carrier_stats(cs, carrier_id)
        counted == [ensured[carrier_id] EXCEPT !.eta_responses_received = @ + 1]
    IN  [ensured EXCEPT ![carrier_id] =
            [counted EXCEPT !.reliability_score = _compute_reliability_score(counted)]]

\* ---- on_eta_request_sent(carrier_id) ----
on_eta_request_sent(cs, carrier_id) ==
    LET ensured == _ensure_carrier_stats(cs, carrier_id)
    IN  [ensured EXCEPT ![carrier_id] = [@ EXCEPT !.total_eta_requests = @ + 1]]

\* ---- rebuild_knowledge_graph() ----
\* The queries carry no ORDER BY, so the order of their rows is the
\* database's; two orders are explored: by ascending and by descending id.
QueryOrders == {"asc", "desc"}

RECURSIVE Ascending(_)
Ascending(S) ==
    IF S = {} THEN <<>>
    ELSE LET m == CHOOSE x \in S : \A y \in S : x <= y
         IN  <<m>> \o Ascending(S \ {m})

Reverse(s) == [i \in 1..Len(s) |-> s[Len(s) + 1 - i]]

query_all(S, order) == IF order = "asc" THEN Ascending(S) ELSE Reverse(Ascending(S))

load_was_late(load) ==
    load.current_eta # None /\ load.updated_at # None /\ load.updated_at > load.current_eta

rebuild_carrier_row_accumulates(row, delivered) ==
    LET late    == {i \in 1..Len(delivered) : load_was_late(loads[delivered[i]])}
        counted == [row EXCEPT
                        !.total_deliveries = @ + Len(delivered),
                        !.late_deliveries = @ + Cardinality(late),
                        !.on_time_deliveries = @ + Len(delivered) - Cardinality(late)]
        score   == _compute_reliability_score(counted)
    IN  [counted EXCEPT !.reliability_score = score,
                        !.flagged_unreliable = score < FLAG_THRESHOLD]

rebuild_carrier_row(row, delivered) ==
    LET late    == {i \in 1..Len(delivered) : load_was_late(loads[delivered[i]])}
        delays  == {loads[delivered[i]].updated_at - loads[delivered[i]].current_eta : i \in late}
        recent  == [i \in 1..Len(delivered) |->
                        DeliveryEntry(i \notin late, loads[delivered[i]].updated_at, delivered[i])]
        counted == [row EXCEPT
                        !.total_deliveries = Len(delivered),
                        !.late_deliveries = Cardinality(late),
                        !.on_time_deliveries = Len(delivered) - Cardinality(late),
                        !.worst_delay_hours =
                            IF delays = {} THEN 0 ELSE CHOOSE d \in delays : \A e \in delays : e <= d,
                        !.recent_deliveries = keep_last(recent, RING_SIZE)]
        score   == _compute_reliability_score(counted)
    IN  [counted EXCEPT !.reliability_score = score,
                        !.flagged_unreliable = score < FLAG_THRESHOLD]

delivered_loads(carrier_id) ==
    {l \in DOMAIN loads : loads[l].carrier_id = carrier_id /\ loads[l].status = "delivered"}

rebuild_carrier_stats(cs, order) ==
    LET touched == {c \in DOMAIN carriers : delivered_loads(c) # {}}
    IN  [c \in DOMAIN cs \cup touched |->
            IF c \in touched
            THEN rebuild_carrier_row(_ensure_carrier_stats(cs, c)[c],
                                     query_all(delivered_loads(c), order))
            ELSE cs[c]]

resolved_escalations(site_id) ==
    {e \in DOMAIN escalations :
        escalations[e].site_id = site_id /\ escalations[e].status = "resolved"}

delivered_to_site(site_id) ==
    Cardinality({l \in DOMAIN loads :
        loads[l].destination_site_id = site_id /\ loads[l].status = "delivered"})

rebuild_site_row(row, resolved, delivered) ==
    LET false_alarms == {i \in 1..Len(resolved) : escalations[resolved[i]].false_alarm_notes}
        events  == [i \in 1..Len(resolved) |->
                        SiteEvent("escalation_resolved", None, resolved[i])]
        counted == [row EXCEPT
                        !.total_escalations = Len(resolved),
                        !.total_deliveries_received = delivered,
                        !.false_alarm_count = Cardinality(false_alarms)]
    IN  [counted EXCEPT
            !.false_alarm_rate =
                IF Len(resolved) > 0 THEN round3(Cardinality(false_alarms), Len(resolved)) ELSE 0,
            !.risk_score = IF counted.total_escalations > 0 THEN site_risk_score(counted) ELSE @,
            !.recent_events = keep_last(events, RING_SIZE)]

rebuild_site_stats(ss, order) ==
    LET touched == {s \in DOMAIN sites :
                        resolved_escalations(s) # {} \/ delivered_to_site(s) # 0}
    IN  [s \in DOMAIN ss \cup touched |->
            IF s \in touched
            THEN rebuild_site_row(_ensure_site_stats(ss, s)[s],
                                  query_all(resolved_escalations(s), order),
                                  delivered_to_site(s))
            ELSE ss[s]]

\* ---- specification SpecKG: events of the knowledge graph over a fixed history ----
MaxKGEvents == 5

\* Rows already in the database when the hooks start to run: none, or one
\* fewer / one more than a buffer holds.
HistorySizes == {0, RING_SIZE - 1, RING_SIZE + 1}

\* Load 1 has no ETA, load 2 an ETA in the past; loads 101.. are delivered,
\* every other one after its ETA.
KGLoads(n) ==
    [l \in {1, 2} \cup {100 + i : i \in 1..n} |->
        IF l = 1 THEN Load(1, 1, "in_transit", None, 0, None, None)
        ELSE IF l = 2 THEN Load(1, 1, "in_transit", 0, 0, None, None)
        ELSE Load(1, 1, "delivered", 5, IF l % 2 = 1 THEN 6 ELSE 4, None, None)]

\* Escalation 1 is on site 1, escalation 2 on no site; 101.. are resolved,
\* every other one as a false alarm.
KGEscalations(n) ==
    [e \in {1, 2} \cup {100 + i : i \in 1..n} |->
        IF e = 1 THEN Escalation(None, None, 1, "high", "runout_risk", "open", FALSE)
        ELSE IF e = 2 THEN Escalation(None, 1, None, "high", "other", "open", FALSE)
        ELSE Escalation(None, None, 1, "medium", "other", "resolved", e % 2 = 0)]

KGLoadIds == {1, 2, 3}
KGEscalationIds == {1, 2, 3}
KGCarrierIds == {1}

InitKG ==
    /\ ParserIdle
    /\ ProcIdle
    /\ utcnow = 0
    /\ carriers = [c \in {1} |-> [dispatcher_email |-> TRUE]]
    /\ sites = [s \in {1} |-> [consignee_code |-> 1]]
    /\ \E n \in HistorySizes :
        /\ loads = KGLoads(n)
        /\ escalations = KGEscalations(n)
    /\ carrier_stats = <<>>
    /\ site_stats = <<>>
    /\ kg_op = "init"
    /\ AgentIdle
    /\ EscIdle

OnLoadDelivered ==
    /\ utcnow < MaxKGEvents
    /\ \E load_id \in KGLoadIds :
        IF load_id \notin DOMAIN loads
        THEN UNCHANGED <<utcnow, kgVars>>
        ELSE /\ utcnow' = utcnow + 1
             /\ carrier_stats' = on_load_delivered_carrier(carrier_stats, load_id, loads[load_id], utcnow')
             /\ site_stats' = on_load_delivered_site(site_stats, load_id, loads[load_id], utcnow')
             /\ kg_op' = "load_delivered"
    /\ UNCHANGED <<parserVars, dbVars, agentVars, escVars, procVars>>

OnEscalationResolved ==
    /\ utcnow < MaxKGEvents
    /\ \E escalation_id \in KGEscalationIds, was_false_alarm \in BOOLEAN :
        IF escalation_id \notin DOMAIN escalations \/ escalations[escalation_id].site_id = None
        THEN UNCHANGED <<utcnow, kgVars>>
        ELSE /\ utcnow' = utcnow + 1
             /\ site_stats' = on_escalation_resolved_site(site_stats, escalation_id,
                                    escalations[escalation_id], was_false_alarm, utcnow')
             /\ kg_op' = "escalation_resolved"
             /\ UNCHANGED carrier_stats
    /\ UNCHANGED <<parserVars, dbVars, agentVars, escVars, procVars>>

OnEtaEmailResponse ==
    /\ utcnow < MaxKGEvents
    /\ \E carrier_id \in KGCarrierIds :
        carrier_stats' = on_eta_email_response(carrier_stats, carrier_id)
    /\ utcnow' = utcnow + 1
    /\ kg_op' = "eta_email_response"
    /\ UNCHANGED <<site_stats, parserVars, dbVars, agentVars, escVars, procVars>>

OnEtaRequestSent ==
    /\ utcnow < MaxKGEvents
    /\ \E carrier_id \in KGCarrierIds :
        carrier_stats' = on_eta_request_sent(carrier_stats, carrier_id)
    /\ utcnow' = utcnow + 1
    /\ kg_op' = "eta_request_sent"
    /\ UNCHANGED <<site_stats, parserVars, dbVars, agentVars, escVars, procVars>>

RebuildKnowledgeGraph ==
    /\ utcnow < MaxKGEvents
    /\ \E order \in QueryOrders :
        /\ carrier_stats' = rebuild_carrier_stats(carrier_stats, order)
        /\ site_stats' = rebuild_site_stats(site_stats, order)
    /\ utcnow' = utcnow + 1
    /\ kg_op' = "rebuild"
    /\ UNCHANGED <<parserVars, dbVars, agentVars, escVars, procVars>>

NextKG ==
    \/ OnLoadDelivered
    \/ OnEscalationResolved
    \/ OnEtaEmailResponse
    \/ OnEtaRequestSent
    \/ RebuildKnowledgeGraph

SpecKG == InitKG /\ [][NextKG]_vars

\* ---- specification SpecKGRace: two on_load_delivered sessions on one carrier ----
\* Each hook opens its own SessionLocal(); the hooks of two requests run on
\* two worker threads.  A session reads a row once, changes the loaded copy
\* in Python and writes back, at its commit, the attributes it changed.
KGProcs == {1, 2}

\* The UPDATE a commit issues for a loaded row: the attributes whose value
\* the session changed, set to the value the session computed.
commit_row_inDatabase(stored, loaded, computed) ==
    [f \in DOMAIN stored |->
        IF computed[f] = loaded[f] THEN stored[f]
        ELSE IF f = "total_deliveries" THEN stored[f] + 1
        ELSE computed[f]]

commit_row(stored, loaded, computed) ==
    [f \in DOMAIN stored |-> IF computed[f] # loaded[f] THEN computed[f] ELSE stored[f]]

\* cs as the session holds it after the increments of lines 88-113
session_carrier_row(p) ==
    LET load == loads[kg_load[p]]
    IN  on_load_delivered_carrier(load.carrier_id :> kg_cs[p], kg_load[p], load,
                                  utcnow)[load.carrier_id]

\* ss as the session holds it after lines 117-125
session_site_row(p) ==
    LET load == loads[kg_load[p]]
    IN  on_load_delivered_site(load.destination_site_id :> kg_ss[p], kg_load[p], load,
                               utcnow)[load.destination_site_id]

\* One earlier delivery of the carrier, recorded by the hook, or none; the
\* rows exist or are still to be created by _ensure_*_stats.
InitKGRace ==
    /\ ParserIdle
    /\ AgentIdle
    /\ EscIdle
    /\ utcnow = 7
    /\ carriers = [c \in {1} |-> [dispatcher_email |-> TRUE]]
    /\ sites = [s \in {1} |-> [consignee_code |-> 1]]
    /\ loads = KGLoads(1)
    /\ escalations = KGEscalations(0)
    /\ carrier_stats \in
          {<<>>, _ensure_carrier_stats(<<>>, 1),
           on_load_delivered_carrier(<<>>, 101, KGLoads(1)[101], 6)}
    /\ site_stats \in
          {<<>>, IF carrier_stats = <<>> \/ carrier_stats[1].total_deliveries = 0
                 THEN _ensure_site_stats(<<>>, 1)
                 ELSE on_load_delivered_site(<<>>, 101, KGLoads(1)[101], 6)}
    /\ kg_op = "init"
    /\ kg_pc = [p \in KGProcs |-> "start"]
    /\ kg_load \in [KGProcs -> {1, 2}]
    /\ kg_cs = [p \in KGProcs |-> CarrierStatsDefault]
    /\ kg_ss = [p \in KGProcs |-> SiteStatsDefault]
    /\ CycleIdle
    /\ SchedIdle
    /\ InboundIdle
    /\ SweepIdle

\* lines 71-86: the load is read, then cs = _ensure_carrier_stats(db, carrier_id)
KGLoadCarrier(p) ==
    /\ kg_pc[p] = "start"
    /\ LET c == loads[kg_load[p]].carrier_id IN
        /\ carrier_stats' = _ensure_carrier_stats(carrier_stats, c)
        /\ kg_cs' = [kg_cs EXCEPT ![p] = carrier_stats'[c]]
    /\ kg_pc' = [kg_pc EXCEPT ![p] = "carrier_loaded"]
    /\ UNCHANGED <<site_stats, kg_op, kg_load, kg_ss,
                   parserVars, utcnow, dbVars, agentVars, escVars,
                   cycleVars, schedVars, inboundVars, sweepVars>>

\* lines 88-116: cs is changed in the session, then ss = _ensure_site_stats(...),
\* whose commit for a row it has to create also commits the changes of cs
KGLoadSite(p) ==
    /\ kg_pc[p] = "carrier_loaded"
    /\ LET load == loads[kg_load[p]]
           c == load.carrier_id
           s == load.destination_site_id
       IN  /\ site_stats' = _ensure_site_stats(site_stats, s)
           /\ kg_ss' = [kg_ss EXCEPT ![p] = site_stats'[s]]
           /\ IF s \in DOMAIN site_stats
              THEN /\ kg_pc' = [kg_pc EXCEPT ![p] = "site_loaded"]
                   /\ UNCHANGED carrier_stats
              ELSE /\ kg_pc' = [kg_pc EXCEPT ![p] = "carrier_committed"]
                   /\ carrier_stats' = [carrier_stats EXCEPT ![c] =
                                            commit_row(@, kg_cs[p], session_carrier_row(p))]
    /\ UNCHANGED <<kg_op, kg_load, kg_cs, parserVars, utcnow, dbVars, agentVars, escVars,
                   cycleVars, schedVars, inboundVars, sweepVars>>

\* lines 117-127: ss is changed in the session; db.commit()
KGCommit(p) ==
    /\ kg_pc[p] \in {"site_loaded", "carrier_committed"}
    /\ LET load == loads[kg_load[p]]
           c == load.carrier_id
           s == load.destination_site_id
       IN  /\ carrier_stats' =
                 IF kg_pc[p] = "carrier_committed" THEN carrier_stats
                 ELSE [carrier_stats EXCEPT ![c] =
                          commit_row(@, kg_cs[p], session_carrier_row(p))]
           /\ site_stats' = [site_stats EXCEPT ![s] =
                                commit_row(@, kg_ss[p], session_site_row(p))]
    /\ kg_pc' = [kg_pc EXCEPT ![p] = "done"]
    /\ kg_op' = "load_delivered"
    /\ UNCHANGED <<kg_load, kg_cs, kg_ss, parserVars, utcnow, dbVars, agentVars, escVars,
                   cycleVars, schedVars, inboundVars, sweepVars>>

NextKGRace ==
    \/ \E p \in KGProcs : KGLoadCarrier(p)
    \/ \E p \in KGProcs : KGLoadSite(p)
    \/ \E p \in KGProcs : KGCommit(p)

SpecKGRace == InitKGRace /\ [][NextKGRace]_vars

\* =========================================================================
\* Tier-1 rules engine and its executor (src/backend/app/agents/rules_engine.py)
\* Tier-2 tool executor and loop (src/backend/app/agents/coordinator_agent.py)
\* =========================================================================

NO_HOURS == 999
CRITICAL_HOURS == 12
HIGH_HOURS == 24
STALE_ETA_HOURS == 4
EMAIL_COOLDOWN_HOURS == 2
DELAYED_EMAIL_COOLDOWN_HOURS == 4
DEFAULT_THRESHOLD_HOURS == 48
MAX_ITERATIONS == 10

Site(assigned_agent_id, hours_to_runout, runout_threshold_hours, consignee_code) ==
    [assigned_agent_id |-> assigned_agent_id, hours_to_runout |-> hours_to_runout,
     runout_threshold_hours |-> runout_threshold_hours, consignee_code |-> consignee_code]

RuleAction(action_type, priority, site_id, load_id, carrier_id, rule) ==
    [action_type |-> action_type, priority |-> priority, site_id |-> site_id,
     load_id |-> load_id, carrier_id |-> carrier_id, rule |-> rule]

Tier2Flag(reason, site_id, load_id, carrier_id) ==
    [reason |-> reason, site_id |-> site_id, load_id |-> load_id, carrier_id |-> carrier_id]

RuleResult(actions, tier2_flags, summary) ==
    [actions |-> actions, tier2_flags |-> tier2_flags, summary |-> summary]

NoResult == RuleResult(<<>>, <<>>, "none")

\* Python's `x or d`: d stands in for None and for every falsy number, 0 included.
py_or(x, d) == IF x = None \/ x = 0 THEN d ELSE x

RECURSIVE Flatten(_)
Flatten(ss) == IF ss = <<>> THEN <<>> ELSE Head(ss) \o Flatten(Tail(ss))

ActiveStatuses == {"scheduled", "in_transit", "delayed"}

assigned_sites(agent_id) == {s \in DOMAIN sites : sites[s].assigned_agent_id = agent_id}

\* loads_by_site.get(site.id, []), in the order of the active_loads query
site_loads_of(site_id) ==
    Ascending({l \in DOMAIN loads :
        loads[l].destination_site_id = site_id /\ loads[l].status \in ActiveStatuses})

hours_since(t, local_now) == IF t = None THEN None ELSE local_now - t

\* rules 3a and 3b for one load of a site below its threshold
rule3_actions(site_id, hours, load_id, local_now) ==
    LET load == loads[load_id]
        hours_since_update == hours_since(load.last_eta_update, local_now)
        hours_since_email  == hours_since(load.last_email_sent, local_now)
    IN  (IF load.status = "delayed"
         THEN <<RuleAction("create_escalation", IF hours < HIGH_HOURS THEN "high" ELSE "medium",
                           site_id, load_id, None, "delayed_load_at_risk_site")>>
         ELSE <<>>)
        \o
        (IF /\ (hours_since_update = None \/ hours_since_update > STALE_ETA_HOURS)
            /\ (hours_since_email = None \/ hours_since_email > EMAIL_COOLDOWN_HOURS)
         THEN <<RuleAction("send_eta_email", "medium", site_id, load_id, load.carrier_id, "stale_eta")>>
         ELSE <<>>)

\* rule 3c for one load
rule3_flags(site_id, hours, load_id) ==
    LET load == loads[load_id]
    IN  IF /\ load.carrier_id \in DOMAIN carrier_stats
           /\ carrier_stats[load.carrier_id].flagged_unreliable
           /\ hours < HIGH_HOURS
        THEN <<Tier2Flag("unreliable_carrier_critical_site", site_id, load_id, load.carrier_id)>>
        ELSE <<>>

\* rule 4 for one load of a site at or above its threshold
rule4_actions(site_id, load_id, local_now) ==
    LET load == loads[load_id]
        hours_since_email == hours_since(load.last_email_sent, local_now)
    IN  IF /\ load.status = "delayed"
           /\ (hours_since_email = None \/ hours_since_email > DELAYED_EMAIL_COOLDOWN_HOURS)
        THEN <<RuleAction("send_eta_email", "medium", site_id, load_id, load.carrier_id,
                          "delayed_load_site_ok")>>
        ELSE <<>>

\* the body of `for site in sites`, rules 1 to 4
site_actions(site_id, local_now) ==
    LET site       == sites[site_id]
        site_loads == site_loads_of(site_id)
        hours      == py_or(site.hours_to_runout, NO_HOURS)
    IN  IF hours < CRITICAL_HOURS /\ site_loads = <<>>
        THEN <<RuleAction("create_escalation", "critical", site_id, None, None, "critical_no_loads")>>
        ELSE IF hours < HIGH_HOURS /\ site_loads = <<>>
        THEN <<RuleAction("create_escalation", "high", site_id, None, None, "high_risk_no_loads")>>
        ELSE (IF hours < site.runout_threshold_hours /\ site_loads # <<>>
              THEN Flatten([i \in 1..Len(site_loads) |->
                              rule3_actions(site_id, hours, site_loads[i], local_now)])
              ELSE <<>>)
             \o
             (IF hours >= site.runout_threshold_hours
              THEN Flatten([i \in 1..Len(site_loads) |->
                              rule4_actions(site_id, site_loads[i], local_now)])
              ELSE <<>>)

site_flags(site_id) ==
    LET site       == sites[site_id]
        site_loads == site_loads_of(site_id)
        hours      == py_or(site.hours_to_runout, NO_HOURS)
    IN  IF site_loads = <<>> /\ hours < HIGH_HOURS THEN <<>>
        ELSE IF hours < site.runout_threshold_hours /\ site_loads # <<>>
        THEN Flatten([i \in 1..Len(site_loads) |-> rule3_flags(site_id, hours, site_loads[i])])
        ELSE <<>>

\* rule 5: carrier_risk_sites[carrier_id] gets one consignee_code per active
\* load of the carrier to a site below its threshold
carrier_risk_codes(agent_id, carrier_id) ==
    LET site_seq == Ascending(assigned_sites(agent_id))
    IN  Flatten([i \in 1..Len(site_seq) |->
            IF py_or(sites[site_seq[i]].hours_to_runout, NO_HOURS)
                   < sites[site_seq[i]].runout_threshold_hours
            THEN LET ls == site_loads_of(site_seq[i])
                 IN  Flatten([j \in 1..Len(ls) |->
                        IF loads[ls[j]].carrier_id = carrier_id
                        THEN <<sites[site_seq[i]].consignee_code>> ELSE <<>>])
            ELSE <<>>])

rule5_flags(agent_id) ==
    LET cids == Ascending({loads[l].carrier_id : l \in
                    {l \in DOMAIN loads : loads[l].status \in ActiveStatuses
                        /\ loads[l].destination_site_id \in assigned_sites(agent_id)}})
    IN  Flatten([i \in 1..Len(cids) |->
            IF Len(carrier_risk_codes(agent_id, cids[i])) > 1
            THEN <<Tier2Flag("multi_site_carrier_risk", None, None, cids[i])>>
            ELSE <<>>])

run_rules_check(agent_id, local_now) ==
    IF agent_id \notin DOMAIN agents THEN RuleResult(<<>>, <<>>, "Agent not found")
    ELSE IF assigned_sites(agent_id) = {} THEN RuleResult(<<>>, <<>>, "No sites assigned")
    ELSE LET site_seq == Ascending(assigned_sites(agent_id))
         IN  RuleResult(
                Flatten([i \in 1..Len(site_seq) |-> site_actions(site_seq[i], local_now)]),
                Flatten([i \in 1..Len(site_seq) |-> site_flags(site_seq[i])])
                    \o rule5_flags(agent_id),
                "checked")

\* ---- execute_tier1_actions ----
EmailLog(load_id, carrier_id, sent_by_agent_id) ==
    [load_id |-> load_id, carrier_id |-> carrier_id, sent_by_agent_id |-> sent_by_agent_id]

insert_row(table, row) ==
    LET id == IF DOMAIN table = {} THEN 1
              ELSE 1 + CHOOSE m \in DOMAIN table : \A k \in DOMAIN table : k <= m
    IN  table @@ (id :> row)

can_email(load_id, carrier_id) ==
    /\ load_id \in DOMAIN loads
    /\ carrier_id \in DOMAIN carriers
    /\ carriers[carrier_id].dispatcher_email

Db(l, e, m, x) == [loads |-> l, escalations |-> e, email_log |-> m, executed |-> x]

tier1_email_gate(mode) == mode = "draft_only"

tier1_escalation_gate_auto_email_passes(mode) == mode = "draft_only"

tier1_escalation_gate(mode) == mode \in {"draft_only", "auto_email"}

\* one turn of `for action in actions`
execute_tier1_action_rechecks(db, agent_id, action, local_now) ==
    LET mode == agents[agent_id].execution_mode IN
    IF action.action_type = "send_eta_email"
    THEN IF tier1_email_gate(mode)
         THEN [db EXCEPT !.executed = Append(@, "email_drafted")]
         ELSE IF /\ can_email(action.load_id, action.carrier_id)
                 /\ db.loads[action.load_id].last_email_sent = None
         THEN [db EXCEPT
                 !.email_log = Append(@, EmailLog(action.load_id, action.carrier_id, agent_id)),
                 !.loads = [@ EXCEPT ![action.load_id].last_email_sent = local_now],
                 !.executed = Append(@, "email_sent")]
         ELSE db
    ELSE IF action.action_type = "create_escalation"
    THEN IF tier1_escalation_gate(mode)
         THEN [db EXCEPT !.executed = Append(@, "escalation_drafted")]
         ELSE [db EXCEPT
                 !.escalations = insert_row(@, Escalation(agent_id, action.load_id, action.site_id,
                                                action.priority, "runout_risk", "open", FALSE)),
                 !.executed = Append(@, "escalation_created")]
    ELSE db

execute_tier1_action_dedups(db, agent_id, action, local_now) ==
    LET mode == agents[agent_id].execution_mode IN
    IF action.action_type = "send_eta_email"
    THEN IF tier1_email_gate(mode)
         THEN [db EXCEPT !.executed = Append(@, "email_drafted")]
         ELSE IF can_email(action.load_id, action.carrier_id)
         THEN [db EXCEPT
                 !.email_log = Append(@, EmailLog(action.load_id, action.carrier_id, agent_id)),
                 !.loads = [@ EXCEPT ![action.load_id].last_email_sent = local_now],
                 !.executed = Append(@, "email_sent")]
         ELSE db
    ELSE IF action.action_type = "create_escalation"
    THEN IF tier1_escalation_gate(mode)
         THEN [db EXCEPT !.executed = Append(@, "escalation_drafted")]
         ELSE IF \E e \in DOMAIN db.escalations :
                    /\ db.escalations[e].site_id = action.site_id
                    /\ db.escalations[e].status = "open"
         THEN db
         ELSE [db EXCEPT
                 !.escalations = insert_row(@, Escalation(agent_id, action.load_id, action.site_id,
                                                action.priority, "runout_risk", "open", FALSE)),
                 !.executed = Append(@, "escalation_created")]
    ELSE db

execute_tier1_action(db, agent_id, action, local_now) ==
    LET mode == agents[agent_id].execution_mode IN
    IF action.action_type = "send_eta_email"
    THEN IF tier1_email_gate(mode)
         THEN [db EXCEPT !.executed = Append(@, "email_drafted")]
         ELSE IF can_email(action.load_id, action.carrier_id)
         THEN [db EXCEPT
                 !.email_log = Append(@, EmailLog(action.load_id, action.carrier_id, agent_id)),
                 !.loads = [@ EXCEPT ![action.load_id].last_email_sent = local_now],
                 !.executed = Append(@, "email_sent")]
         ELSE db
    ELSE IF action.action_type = "create_escalation"
    THEN IF tier1_escalation_gate(mode)
         THEN [db EXCEPT !.executed = Append(@, "escalation_drafted")]
         ELSE [db EXCEPT
                 !.escalations = insert_row(@, Escalation(agent_id, action.load_id, action.site_id,
                                                action.priority, "runout_risk", "open", FALSE)),
                 !.executed = Append(@, "escalation_created")]
    ELSE db

RECURSIVE execute_tier1_from(_, _, _, _, _)
execute_tier1_from(db, agent_id, actions, i, local_now) ==
    IF i > Len(actions) THEN db
    ELSE execute_tier1_from(execute_tier1_action(db, agent_id, actions[i], local_now),
                            agent_id, actions, i + 1, local_now)

execute_tier1_actions(agent_id, actions, local_now) ==
    IF agent_id \notin DOMAIN agents THEN Db(loads, escalations, email_log, <<>>)
    ELSE execute_tier1_from(Db(loads, escalations, email_log, <<>>), agent_id, actions, 1, local_now)

\* ---- CoordinatorAgent._execute_tool ----
ToolCall(name, load_id, site_id, issue_type) ==
    [name |-> name, load_id |-> load_id, site_id |-> site_id, issue_type |-> issue_type]

IssueTypes == {"runout_risk", "delayed_shipment", "terminal_out_of_stock", "driver_issue", "other"}

tier2_email_gate(mode) == mode = "draft_only"

tier2_escalation_gate(mode) == mode \in {"draft_only", "auto_email"}

\* executed: "raised" when the tool raises, else the kind of result string
_execute_tool(db, agent_id, call) ==
    LET mode == agents[agent_id].execution_mode IN
    IF call.name = "send_eta_request_email"
    THEN IF tier2_email_gate(mode)
         THEN [db EXCEPT !.executed = "draft"]
         ELSE IF call.load_id \notin DOMAIN db.loads
         THEN [db EXCEPT !.executed = "not_found"]
         ELSE IF ~can_email(call.load_id, db.loads[call.load_id].carrier_id)
         THEN [db EXCEPT !.executed = "no_dispatcher_email"]
         ELSE [db EXCEPT
                 !.email_log = Append(@, EmailLog(call.load_id,
                                          db.loads[call.load_id].carrier_id, agent_id)),
                 !.loads = [@ EXCEPT ![call.load_id].last_email_sent = utcnow],
                 !.executed = "email_sent"]
    ELSE IF call.name = "create_escalation"
    THEN IF call.issue_type \notin IssueTypes
         THEN [db EXCEPT !.executed = "raised"]
         ELSE IF tier2_escalation_gate(mode)
         THEN [db EXCEPT !.executed = "draft"]
         ELSE [db EXCEPT
                 !.escalations = insert_row(@, Escalation(agent_id, call.load_id, call.site_id,
                                                "high", call.issue_type, "open", FALSE)),
                 !.executed = "escalation_created"]
    ELSE [db EXCEPT !.executed = "text"]

\* `for tool_call in tool_calls`, stopping at the first call that raises
RECURSIVE execute_tools_from(_, _, _, _)
execute_tools_from(db, agent_id, calls, i) ==
    IF i > Len(calls) \/ db.executed = "raised" THEN db
    ELSE execute_tools_from(_execute_tool(db, agent_id, calls[i]), agent_id, calls, i + 1)

\* ---- the cycle of run_agent_check for one agent ----
AgentId == 1

\* America/New_York against UTC, in hours: now_local() is five or four hours
\* behind datetime.utcnow().
AppTzOffsets == {0 - 5, 0 - 4}

AgentRunHistory(status, error_message, api_calls) ==
    [status |-> status, error_message |-> error_message, api_calls |-> api_calls]

NoRunRecord == AgentRunHistory("none", "unset", 0)

EntryPoints == {"scheduled", "manual"}

\* Where an exception raised in a phase is handled: one of the Tier-2 phase
\* by run_check_cycle's own `except Exception`, which returns a failure result
\* (and by the try around the Tier-2 call in run_agent_check); one of the
\* Tier-1 phase by the outer handler of run_agent_check.
handler_of_outerOnly(phase) == "except"

handler_of(phase) == IF phase = "tier2" THEN "finalise" ELSE "except"

\* An entry point calls run_agent_check, which stores the run record as
\* RUNNING before the Tier-1 phase.
StartCycle ==
    /\ cyc_pc = "entry"
    /\ \E e \in EntryPoints : entry' = e
    /\ run_record' = AgentRunHistory("running", "unset", 0)
    /\ cyc_pc' = "tier1"
    /\ UNCHANGED <<agents, email_log, rules_result, tier1_executed, iteration,
                   cyc_error, cyc_exit, last_reply,
                   parserVars, utcnow, dbVars, kgVars, escVars, procVars>>

\* `hours < site.runout_threshold_hours` raises TypeError on a site whose
\* threshold column is NULL, once rules 1 and 2 have not taken the site.
rules_check_raises(agent_id) ==
    /\ agent_id \in DOMAIN agents
    /\ \E s \in assigned_sites(agent_id) :
          /\ ~(py_or(sites[s].hours_to_runout, NO_HOURS) < HIGH_HOURS /\ site_loads_of(s) = <<>>)
          /\ sites[s].runout_threshold_hours = None

RunRulesCheck ==
    /\ cyc_pc = "tier1"
    /\ IF rules_check_raises(AgentId)
       THEN /\ cyc_pc' = handler_of("tier1")
            /\ cyc_error' = "tier1"
            /\ UNCHANGED rules_result
       ELSE /\ \E tz \in AppTzOffsets : rules_result' = run_rules_check(AgentId, utcnow + tz)
            /\ cyc_pc' = "gate"
            /\ UNCHANGED cyc_error
    /\ UNCHANGED <<agents, email_log, tier1_executed, iteration,
                   entry, run_record, cyc_exit, last_reply,
                   parserVars, utcnow, dbVars, kgVars, escVars, procVars>>

\* the action gets as far as a send or persist step (send_eta_request, db.commit)
reaches_io(agent_id, action) ==
    LET mode == agents[agent_id].execution_mode IN
    \/ /\ action.action_type = "send_eta_email"
       /\ ~tier1_email_gate(mode)
       /\ can_email(action.load_id, action.carrier_id)
    \/ /\ action.action_type = "create_escalation"
       /\ ~tier1_escalation_gate(mode)

\* `if rules_result.tier2_flags:` decides whether the Tier-2 phase runs
after_tier1_always(result) == "tier2"

after_tier1(result) == IF result.tier2_flags # <<>> THEN "tier2" ELSE "finalise"

\* k = 0: every action runs to its end.  k > 0: the send or persist step of
\* action k raises; the loop has no handler, so the actions before k are
\* stored, action k and the actions after it are not, and the exception
\* leaves execute_tier1_actions.
ExecuteTier1Actions ==
    /\ cyc_pc = "gate"
    /\ \E tz \in AppTzOffsets, k \in 0..Len(rules_result.actions) :
        /\ k > 0 => reaches_io(AgentId, rules_result.actions[k])
        /\ LET reached == IF k = 0 THEN rules_result.actions
                          ELSE SubSeq(rules_result.actions, 1, k - 1)
               db == execute_tier1_actions(AgentId, reached, utcnow + tz)
           IN  /\ loads' = db.loads
               /\ escalations' = db.escalations
               /\ email_log' = db.email_log
               /\ IF k = 0
                  THEN /\ tier1_executed' = db.executed
                       /\ cyc_pc' = after_tier1(rules_result)
                       /\ UNCHANGED cyc_error
                  ELSE /\ cyc_pc' = handler_of("tier1")
                       /\ cyc_error' = "tier1"
                       /\ UNCHANGED tier1_executed
    /\ UNCHANGED <<agents, rules_result, iteration, carriers, sites,
                   entry, run_record, cyc_exit, last_reply,
                   parserVars, utcnow, kgVars, escVars, procVars>>

\* What the reasoning service may answer in one call: no tool call, one
\* tool call, or an email followed by complete_check.
Tier2Calls ==
    {ToolCall("send_eta_request_email", l, None, None) : l \in {1, 9}}
    \cup {ToolCall("create_escalation", None, 1, t) : t \in {"other", "no_such_type"}}
    \cup {ToolCall(n, None, None, None) : n \in {"check_site_inventory", "log_observation", "complete_check"}}

Tier2Responses ==
    {<<>>} \cup {<<c>> : c \in Tier2Calls}
    \cup {<<ToolCall("send_eta_request_email", 1, None, None), ToolCall("complete_check", None, None, None)>>}

\* `while iteration < max_iterations and not completed`
loop_continues_ignoresCompleted(iter, completed) == iter < MAX_ITERATIONS

loop_continues(iter, completed) == iter < MAX_ITERATIONS /\ ~completed

\* One turn of the loop of run_check_cycle.  The call of the reasoning
\* service raises, or answers with tool calls that are executed in order.
\* An exception (of the service or of a tool) is caught by run_check_cycle,
\* which returns a failure result to run_agent_check.
Tier2Iterate ==
    /\ cyc_pc = "tier2"
    /\ iteration < MAX_ITERATIONS
    /\ iteration' = iteration + 1
    /\ \E chat \in {"raises", "answers"}, calls \in Tier2Responses :
        IF chat = "raises"
        THEN /\ last_reply' = "service_error"
             /\ cyc_error' = "tier2"
             /\ cyc_pc' = handler_of("tier2")
             /\ UNCHANGED <<loads, escalations, email_log>>
        ELSE IF calls = <<>>
        THEN /\ last_reply' = "no_tool_call"
             /\ cyc_pc' = "finalise"
             /\ UNCHANGED <<loads, escalations, email_log, cyc_error>>
        ELSE LET db == execute_tools_from(Db(loads, escalations, email_log, "text"), AgentId, calls, 1)
                 completed == \E i \in 1..Len(calls) : calls[i].name = "complete_check"
             IN  /\ loads' = db.loads
                 /\ escalations' = db.escalations
                 /\ email_log' = db.email_log
                 /\ IF db.executed = "raised"
                    THEN /\ last_reply' = "tool_raised"
                         /\ cyc_error' = "tier2"
                         /\ cyc_pc' = handler_of("tier2")
                    ELSE /\ last_reply' = IF completed THEN "complete_check" ELSE "tool_calls"
                         /\ cyc_pc' = IF loop_continues(iteration', completed)
                                      THEN "tier2" ELSE "finalise"
                         /\ UNCHANGED cyc_error
    /\ UNCHANGED <<agents, rules_result, tier1_executed, carriers, sites,
                   entry, run_record, cyc_exit,
                   parserVars, utcnow, kgVars, escVars, procVars>>

\* run_check_cycle returns no "iterations" key when it failed
tier2_api_calls(error, iter) == IF error = "tier2" THEN 0 ELSE iter

\* "Update run record with results", then return to the entry point
Finalise ==
    /\ cyc_pc = "finalise"
    /\ run_record' = AgentRunHistory("completed", "unset", tier2_api_calls(cyc_error, iteration))
    /\ cyc_pc' = "done"
    /\ cyc_exit' = "returned"
    /\ UNCHANGED <<agents, email_log, rules_result, tier1_executed, iteration,
                   entry, cyc_error, last_reply,
                   parserVars, utcnow, dbVars, kgVars, escVars, procVars>>

\* the handler of run_agent_check's outer `except Exception as e`
mark_failed_keepsRunning(record) == [record EXCEPT !.error_message = "set"]

mark_failed(record) == [record EXCEPT !.status = "failed", !.error_message = "set"]

\* The outer handler marks the run record and re-raises.  Its own write is
\* taken to succeed: the exception it handles came from the Tier-1 code, not
\* from the run-history table.
MarkFailed ==
    /\ cyc_pc = "except"
    /\ run_record' = mark_failed(run_record)
    /\ cyc_pc' = "raised"
    /\ UNCHANGED <<agents, email_log, rules_result, tier1_executed, iteration,
                   entry, cyc_error, cyc_exit, last_reply,
                   parserVars, utcnow, dbVars, kgVars, escVars, procVars>>

\* run_scheduled_agent_check wraps the call in `except Exception`;
\* the route run_agent_check_cycle calls run_agent_check with no handler.
entry_point_traps(e) == e = "scheduled"

EntryPointExit ==
    /\ cyc_pc = "raised"
    /\ cyc_exit' = IF entry_point_traps(entry) THEN "trapped" ELSE "propagated"
    /\ cyc_pc' = "done"
    /\ UNCHANGED <<agents, email_log, rules_result, tier1_executed, iteration,
                   entry, run_record, cyc_error, last_reply,
                   parserVars, utcnow, dbVars, kgVars, escVars, procVars>>

\* ---- specification SpecTier1: one Tier-1 pass over every small database ----
T1Now == 100

HoursValues == {None, 0, 6, 12, 18, 30, 60}

T1Sites ==
    {[s \in {1, 2} |-> IF s = 1 THEN Site(AgentId, h1, DEFAULT_THRESHOLD_HOURS, 1)
                                ELSE Site(a2, h2, DEFAULT_THRESHOLD_HOURS, 2)] :
        h1 \in HoursValues, h2 \in {None, 0, 30}, a2 \in {AgentId, None}}

T1Loads ==
    {[l \in {1, 2} |-> IF l = 1 THEN Load(1, d1, s1, None, None, u1, e1)
                                ELSE Load(c2, d2, s2, None, None, None, None)] :
        d1 \in {1, 2}, s1 \in {"in_transit", "delayed", "delivered"},
        u1 \in {None, T1Now - 10, T1Now - 5}, e1 \in {None, T1Now - 8, T1Now - 1},
        c2 \in {1, 2}, d2 \in {1, 2}, s2 \in {"scheduled", "delivered"}}

T1CarrierStats ==
    {[c \in {1} |-> [CarrierStatsDefault EXCEPT !.flagged_unreliable = f,
                                                !.reliability_score = IF f THEN 300 ELSE 500]] :
        f \in BOOLEAN}

InitTier1 ==
    /\ ParserIdle
    /\ ProcIdle
    /\ utcnow = T1Now
    /\ agents = [a \in {AgentId} |-> [execution_mode |-> "draft_only"]]
    /\ carriers = [c \in {1, 2} |-> [dispatcher_email |-> TRUE]]
    /\ sites \in T1Sites
    /\ loads \in T1Loads
    /\ escalations = <<>>
    /\ carrier_stats \in T1CarrierStats
    /\ site_stats = <<>>
    /\ kg_op = "idle"
    /\ email_log = <<>>
    /\ cyc_pc = "tier1"
    /\ rules_result = NoResult
    /\ tier1_executed = <<>>
    /\ iteration = 0
    /\ entry = "scheduled"
    /\ run_record = AgentRunHistory("running", "unset", 0)
    /\ cyc_error = "none"
    /\ cyc_exit = "none"
    /\ last_reply = "none"
    /\ EscIdle

NextTier1 == RunRulesCheck

SpecTier1 == InitTier1 /\ [][NextTier1]_vars

\* ---- specification SpecAgent: one cycle, Tier 1 through its executor and Tier 2 ----
ExecutionModes == {"draft_only", "auto_email", "full_auto"}

AgentSites ==
    {[s \in {1, 2} |-> IF s = 1 THEN Site(AgentId, h1, DEFAULT_THRESHOLD_HOURS, 1)
                                ELSE Site(AgentId, h2, t2, 2)] :
        h1 \in {6, 30, 60}, h2 \in {6, 30}, t2 \in {DEFAULT_THRESHOLD_HOURS, None}}

AgentLoads ==
    {[l \in {1, 2} |-> IF l = 1 THEN Load(1, 1, s1, None, None, None, None)
                                ELSE Load(1, d2, "in_transit", None, None, None, e2)] :
        s1 \in {"in_transit", "delayed"}, d2 \in {1, 2}, e2 \in {None, T1Now}}

InitAgent ==
    /\ ParserIdle
    /\ ProcIdle
    /\ utcnow = T1Now
    /\ agents \in {[a \in {AgentId} |-> [execution_mode |-> m]] : m \in ExecutionModes}
    /\ carriers \in {[c \in {1} |-> [dispatcher_email |-> d]] : d \in BOOLEAN}
    /\ sites \in AgentSites
    /\ loads \in AgentLoads
    /\ escalations = <<>>
    /\ carrier_stats \in T1CarrierStats
    /\ site_stats = <<>>
    /\ kg_op = "idle"
    /\ email_log = <<>>
    /\ cyc_pc = "entry"
    /\ rules_result = NoResult
    /\ tier1_executed = <<>>
    /\ iteration = 0
    /\ entry = "idle"
    /\ run_record = NoRunRecord
    /\ cyc_error = "none"
    /\ cyc_exit = "none"
    /\ last_reply = "none"
    /\ EscIdle

NextAgent ==
    \/ StartCycle
    \/ MarkFailed
    \/ EntryPointExit
    \/ RunRulesCheck
    \/ ExecuteTier1Actions
    \/ Tier2Iterate
    \/ Finalise

SpecAgent == InitAgent /\ [][NextAgent]_vars

\* ---- specification SpecTier2Live: cycles that reach the Tier-2 loop, run to their end ----
\* Both sites are below 24 h with a load of a carrier flagged unreliable, so
\* the Tier-1 pass returns ambiguity flags.
InitTier2 ==
    /\ InitAgent
    /\ agents[AgentId].execution_mode \in {"draft_only", "full_auto"}
    /\ carriers[1].dispatcher_email
    /\ sites = [s \in {1, 2} |-> Site(AgentId, 6, DEFAULT_THRESHOLD_HOURS, s)]
    /\ loads \in {[l \in {1, 2} |-> Load(1, l, IF l = 1 THEN s1 ELSE "in_transit",
                                          None, None, None, None)] :
                    s1 \in {"in_transit", "delayed"}}
    /\ carrier_stats[1].flagged_unreliable

\* The cycle is one sequential call: each of its steps is taken once it is
\* enabled (a call of the reasoning service returns or raises).
SpecTier2Live == InitTier2 /\ [][NextAgent]_vars /\ WF_vars(NextAgent)

\* ---- specification SpecCycles: cycles of one agent from both entry points ----
\* The scheduler's job and the run-check route both call run_agent_check;
\* neither takes a lease on the agent, so the Tier-1 phase of one can run
\* between the rules check and the gate of the other.  Each phase opens its
\* own session: the gate works on the actions the rules check returned.
MaxCycles == 3

CycleSites ==
    {[s \in {1, 2} |-> IF s = 1 THEN Site(AgentId, h1, DEFAULT_THRESHOLD_HOURS, 1)
                                ELSE Site(AgentId, h2, DEFAULT_THRESHOLD_HOURS, 2)] :
        h1 \in {6, 60}, h2 \in {0, 6, 18}}

CycleLoads ==
    {[l \in {1} |-> Load(1, 1, "in_transit", None, None, u1, e1)] :
        u1 \in {None, T1Now - 5}, e1 \in {None, T1Now - 8}}

InitCycles ==
    /\ ParserIdle
    /\ KGIdle
    /\ EscIdle
    /\ email_log = <<>>
    /\ cyc_pc = "idle"
    /\ rules_result = NoResult
    /\ tier1_executed = <<>>
    /\ iteration = 0
    /\ entry = "idle"
    /\ run_record = NoRunRecord
    /\ cyc_error = "none"
    /\ cyc_exit = "none"
    /\ last_reply = "none"
    /\ utcnow = T1Now
    /\ agents \in {[a \in {AgentId} |-> [execution_mode |-> m]] : m \in ExecutionModes}
    /\ carriers = [c \in {1} |-> [dispatcher_email |-> TRUE]]
    /\ sites \in CycleSites
    /\ loads \in CycleLoads
    /\ escalations = <<>>
    /\ KGRaceIdle
    /\ SchedIdle
    /\ InboundIdle
    /\ SweepIdle
    /\ ov_pc = [c \in EntryPoints |-> "idle"]
    /\ ov_result = [c \in EntryPoints |-> NoResult]
    /\ ov_done = 0

cycles_running == Cardinality({c \in EntryPoints : ov_pc[c] # "idle"})

\* run_scheduled_agent_check / run_agent_check_cycle: run_agent_check(agent_id)
CycleStart(c) ==
    /\ ov_pc[c] = "idle"
    /\ ov_done + cycles_running < MaxCycles
    /\ ov_pc' = [ov_pc EXCEPT ![c] = "tier1"]
    /\ UNCHANGED <<ov_result, ov_done, parserVars, utcnow, dbVars, kgVars, agentVars,
                   escVars,
                   kgRaceVars, schedVars, inboundVars, sweepVars>>

\* rules_result = run_rules_check(agent_id)
CycleRulesCheck(c) ==
    /\ ov_pc[c] = "tier1"
    /\ \E tz \in AppTzOffsets :
        ov_result' = [ov_result EXCEPT ![c] = run_rules_check(AgentId, utcnow + tz)]
    /\ ov_pc' = [ov_pc EXCEPT ![c] = "gate"]
    /\ UNCHANGED <<ov_done, parserVars, utcnow, dbVars, kgVars, agentVars, escVars,
                   kgRaceVars, schedVars, inboundVars, sweepVars>>

\* execute_tier1_actions(agent_id, rules_result.actions)
CycleExecute(c) ==
    /\ ov_pc[c] = "gate"
    /\ \E tz \in AppTzOffsets :
        LET db == execute_tier1_actions(AgentId, ov_result[c].actions, utcnow + tz)
        IN  /\ loads' = db.loads
            /\ escalations' = db.escalations
            /\ email_log' = db.email_log
    /\ ov_pc' = [ov_pc EXCEPT ![c] = "idle"]
    /\ ov_done' = ov_done + 1
    /\ UNCHANGED <<ov_result, agents, cyc_pc, rules_result, tier1_executed, iteration,
                   entry, run_record, cyc_error, cyc_exit, last_reply, carriers, sites,
                   parserVars, utcnow, kgVars, escVars,
                   kgRaceVars, schedVars, inboundVars, sweepVars>>

NextCycles ==
    \/ \E c \in EntryPoints : CycleStart(c)
    \/ \E c \in EntryPoints : CycleRulesCheck(c)
    \/ \E c \in EntryPoints : CycleExecute(c)

SpecCycles == InitCycles /\ [][NextCycles]_vars

\* ---- specification SpecSched: agent routes and the scheduler's agent jobs ----
AgentStatuses == {"active", "paused", "stopped"}

IntervalValues == {15, 30}

AIAgent(status, check_interval_minutes) ==
    [status |-> status, check_interval_minutes |-> check_interval_minutes,
     execution_mode |-> "draft_only"]

SchedAgentIds == {1, 2}

\* job_id = f"agent_{agent_id}_check": one job per agent id at most
add_agent_job(jobs, agent_id, interval_minutes) ==
    [a \in DOMAIN jobs \cup {agent_id} |->
        IF a = agent_id THEN interval_minutes ELSE jobs[a]]

remove_agent_job(jobs, agent_id) == [a \in DOMAIN jobs \ {agent_id} |-> jobs[a]]

\* start_scheduler: a job for every agent that is ACTIVE when the
\* application starts
InitSched ==
    /\ ParserIdle
    /\ DbIdle
    /\ KGIdle
    /\ EscIdle
    /\ KGRaceIdle
    /\ CycleIdle
    /\ InboundIdle
    /\ SweepIdle
    /\ utcnow = 0
    /\ agents \in [SchedAgentIds -> {AIAgent(s, i) : s \in AgentStatuses, i \in IntervalValues}]
    /\ sched_jobs = [a \in {a \in SchedAgentIds : agents[a].status = "active"} |->
                        agents[a].check_interval_minutes]
    /\ sched_tick = "none"
    /\ email_log = <<>>
    /\ cyc_pc = "idle"
    /\ rules_result = NoResult
    /\ tier1_executed = <<>>
    /\ iteration = 0
    /\ entry = "idle"
    /\ run_record = NoRunRecord
    /\ cyc_error = "none"
    /\ cyc_exit = "none"
    /\ last_reply = "none"

SchedRest ==
    <<email_log, cyc_pc, rules_result, tier1_executed, iteration, entry, run_record,
      cyc_error, cyc_exit, last_reply, parserVars, utcnow, dbVars, kgVars, escVars,
      kgRaceVars, cycleVars, inboundVars, sweepVars>>

\* POST /{agent_id}/start, /pause, /stop: the status column and nothing else
StartAgent ==
    \E a \in SchedAgentIds :
        /\ a \in DOMAIN agents
        /\ agents' = [agents EXCEPT ![a].status = "active"]
        /\ UNCHANGED <<sched_jobs, sched_tick, SchedRest>>

PauseAgent ==
    \E a \in SchedAgentIds :
        /\ a \in DOMAIN agents
        /\ agents' = [agents EXCEPT ![a].status = "paused"]
        /\ UNCHANGED <<sched_jobs, sched_tick, SchedRest>>

StopAgent ==
    \E a \in SchedAgentIds :
        /\ a \in DOMAIN agents
        /\ agents' = [agents EXCEPT ![a].status = "stopped"]
        /\ UNCHANGED <<sched_jobs, sched_tick, SchedRest>>

\* PATCH /{agent_id}: the fields the request sets, among them status and
\* check_interval_minutes; the scheduler is not called
UpdateAgent ==
    \E a \in SchedAgentIds, s \in AgentStatuses \cup {"unset"}, i \in IntervalValues \cup {None} :
        /\ a \in DOMAIN agents
        /\ agents' = [agents EXCEPT
                        ![a].status = IF s = "unset" THEN @ ELSE s,
                        ![a].check_interval_minutes = IF i = None THEN @ ELSE i]
        /\ UNCHANGED <<sched_jobs, sched_tick, SchedRest>>

\* POST /{agent_id}/schedule
ScheduleAgent ==
    \E a \in SchedAgentIds :
        /\ a \in DOMAIN agents
        /\ agents' = [agents EXCEPT ![a].status = "active"]
        /\ sched_jobs' = add_agent_job(sched_jobs, a, agents[a].check_interval_minutes)
        /\ UNCHANGED <<sched_tick, SchedRest>>

\* POST /{agent_id}/unschedule
UnscheduleAgent ==
    \E a \in SchedAgentIds :
        /\ a \in DOMAIN agents
        /\ agents' = [agents EXCEPT ![a].status = "stopped"]
        /\ sched_jobs' = remove_agent_job(sched_jobs, a)
        /\ UNCHANGED <<sched_tick, SchedRest>>

\* a job fires: run_scheduled_agent_check(agent_id)
ScheduledTick ==
    \E a \in DOMAIN sched_jobs :
        /\ sched_tick' = IF a \in DOMAIN agents /\ agents[a].status = "active"
                         THEN "ran" ELSE "skipped"
        /\ UNCHANGED <<agents, sched_jobs, SchedRest>>

NextSched ==
    \/ StartAgent
    \/ PauseAgent
    \/ StopAgent
    \/ UpdateAgent
    \/ ScheduleAgent
    \/ UnscheduleAgent
    \/ ScheduledTick

SpecSched == InitSched /\ [][NextSched]_vars

\* ---- specification SpecInbound: a carrier reply, then Tier-1 passes ----
MaxInboundClock == 4

\* Load 1 carries the PO number the reply quotes; its carrier was asked for
\* an ETA three or eight hours ago, or never.
InboundLoads ==
    {[l \in {1} |-> Load(1, 1, "in_transit", None, None, u, e) @@ [last_eta_update_at |-> None]] :
        u \in {None, T1Now - 10}, e \in {None, T1Now - 3, T1Now - 8}}

\* the keyword table of on_unparseable_email: any of its phrases in the body
KeywordIssue == [issue_type |-> "driver_issue", priority |-> "high"]

Inbound(success, load_id, created, at) ==
    [success |-> success, load_id |-> load_id, escalations |-> created, at |-> at]

\* on_unparseable_email(from_email, subject, body, load_id): an escalation
\* when the body holds one of the phrases
on_unparseable_email(table, keyword, load_id) ==
    IF keyword
    THEN insert_row(table, Escalation(None, load_id, loads[load_id].destination_site_id,
                                      KeywordIssue.priority, KeywordIssue.issue_type,
                                      "open", FALSE))
    ELSE table

\* auto-reply case B: the coordinator escalation for a reply without an ETA
coordinator_escalation(table, load_id) ==
    insert_row(table, Escalation(None, load_id, loads[load_id].destination_site_id,
                                 "medium", "no_carrier_response", "open", FALSE))

InitInbound ==
    /\ ParserIdle
    /\ EscIdle
    /\ KGRaceIdle
    /\ CycleIdle
    /\ SchedIdle
    /\ SweepIdle
    /\ utcnow = T1Now
    /\ agents = [a \in {AgentId} |-> [execution_mode |-> "draft_only"]]
    /\ carriers = [c \in {1} |-> [dispatcher_email |-> TRUE]]
    /\ sites \in {[s \in {1} |-> Site(AgentId, h, DEFAULT_THRESHOLD_HOURS, 1)] : h \in {6, 60}}
    /\ loads \in InboundLoads
    /\ escalations = <<>>
    /\ carrier_stats = <<>>
    /\ site_stats = <<>>
    /\ kg_op = "idle"
    /\ email_log = <<>>
    /\ cyc_pc = "idle"
    /\ rules_result = NoResult
    /\ tier1_executed = <<>>
    /\ iteration = 0
    /\ entry = "idle"
    /\ run_record = NoRunRecord
    /\ cyc_error = "none"
    /\ cyc_exit = "none"
    /\ last_reply = "none"
    /\ in_pc = "ready"
    /\ in_last = NoInbound

\* POST /api/email/inbound.  po: what extract_po_number and the load query
\* come to; parsed: what parse_eta_from_email_with_method returns; keyword:
\* whether the body holds a phrase of the keyword table; tz: the server's
\* datetime.now() against UTC.
ProcessInboundEmail ==
    /\ in_pc = "ready"
    /\ \E is_self \in BOOLEAN, po \in {"none", "unknown", "load"},
          parsed \in {None, utcnow + 2}, keyword \in BOOLEAN, tz \in AppTzOffsets \cup {0} :
        LET load_id == IF po = "load" THEN 1 ELSE None
            success == load_id # None /\ parsed # None
            vague   == load_id # None /\ parsed = None
            by_kg   == IF vague THEN on_unparseable_email(escalations, keyword, load_id)
                       ELSE escalations
        IN  IF is_self
            THEN /\ in_last' = Inbound(FALSE, None, 0, utcnow)
                 /\ UNCHANGED <<loads, escalations, carrier_stats, kg_op>>
            ELSE /\ loads' = IF success
                             THEN [loads EXCEPT ![load_id].current_eta = parsed,
                                                ![load_id].last_eta_update_at = utcnow + tz]
                             ELSE loads
                 /\ carrier_stats' = IF success
                                     THEN on_eta_email_response(carrier_stats, loads[load_id].carrier_id)
                                     ELSE carrier_stats
                 /\ kg_op' = IF success THEN "eta_email_response" ELSE kg_op
                 /\ escalations' = IF vague THEN coordinator_escalation(by_kg, load_id)
                                   ELSE escalations
                 /\ in_last' = Inbound(success, load_id,
                                       Cardinality(DOMAIN escalations' \ DOMAIN escalations),
                                       utcnow)
    /\ in_pc' = "processed"
    /\ UNCHANGED <<site_stats, carriers, sites, utcnow, agentVars, parserVars, escVars,
                   kgRaceVars, cycleVars, schedVars, sweepVars>>

\* a Tier-1 pass of the agent's next cycle
InboundRulesCheck ==
    /\ in_pc \in {"processed", "checked"}
    /\ \E tz \in AppTzOffsets : rules_result' = run_rules_check(AgentId, utcnow + tz)
    /\ in_pc' = "checked"
    /\ UNCHANGED <<in_last, agents, email_log, cyc_pc, tier1_executed, iteration, entry,
                   run_record, cyc_error, cyc_exit, last_reply, dbVars, kgVars, utcnow,
                   parserVars, escVars, kgRaceVars, cycleVars, schedVars, sweepVars>>

InboundTick ==
    /\ utcnow < T1Now + MaxInboundClock
    /\ utcnow' = utcnow + 1
    /\ in_pc' = IF in_pc = "checked" THEN "processed" ELSE in_pc
    /\ UNCHANGED <<in_last, dbVars, kgVars, agentVars, parserVars, escVars,
                   kgRaceVars, cycleVars, schedVars, sweepVars>>

NextInbound ==
    \/ ProcessInboundEmail
    \/ InboundRulesCheck
    \/ InboundTick

SpecInbound == InitInbound /\ [][NextInbound]_vars

\* =========================================================================
\* Escalation routes (src/backend/app/routers/escalations.py) and the
\* staleness monitor (src/backend/app/services/staleness_monitor.py)
\* =========================================================================

\* The mapped attributes of the Escalation class (app/models.py).  A query
\* on, or a constructor keyword for, any other name raises.
EscalationColumns ==
    {"id", "created_by_agent_id", "load_id", "site_id", "priority", "issue_type",
     "description", "status", "assigned_to", "resolution_notes", "created_at",
     "resolved_at", "updated_at"}

EscalationStatuses == {"open", "in_progress", "resolved"}

\* ---- POST /api/escalations/ ----
create_escalation(table, issue_type, site_id, load_id) ==
    insert_row(table, Escalation(None, load_id, site_id, "medium", issue_type, "open", FALSE))

\* ---- PATCH /api/escalations/{id}: every field that is set is assigned ----
update_escalation(table, escalation_id, status) ==
    IF status = "unset" THEN table
    ELSE [table EXCEPT ![escalation_id].status = status]

\* ---- POST /api/escalations/{id}/assign ----
assign_escalation(table, escalation_id) ==
    [table EXCEPT ![escalation_id].status = "in_progress"]

\* ---- POST /api/escalations/{id}/resolve ----
resolve_escalation(table, escalation_id, false_alarm_notes) ==
    [table EXCEPT ![escalation_id].status = "resolved",
                  ![escalation_id].false_alarm_notes = IF false_alarm_notes THEN TRUE ELSE @]

\* ---- DELETE /api/escalations/{id} ----
delete_escalation(table, escalation_id) ==
    [e \in DOMAIN table \ {escalation_id} |-> table[e]]

\* ---- staleness monitor ----
StaleSite(service_type, last_inventory_update_at, inventory_staleness_threshold_hours, hours_to_runout) ==
    [service_type |-> service_type, last_inventory_update_at |-> last_inventory_update_at,
     inventory_staleness_threshold_hours |-> inventory_staleness_threshold_hours,
     hours_to_runout |-> hours_to_runout]

StaleLoad(status, destination_site_id, last_eta_update_at, eta_staleness_threshold_hours) ==
    [status |-> status, destination_site_id |-> destination_site_id,
     last_eta_update_at |-> last_eta_update_at,
     eta_staleness_threshold_hours |-> eta_staleness_threshold_hours]

is_inventory_stale(site) ==
    \/ site.last_inventory_update_at = None
    \/ utcnow - site.last_inventory_update_at > site.inventory_staleness_threshold_hours

inventory_staleness_hours(site) ==
    IF site.last_inventory_update_at = None THEN 0 ELSE utcnow - site.last_inventory_update_at

is_eta_stale(load) ==
    \/ load.last_eta_update_at = None
    \/ utcnow - load.last_eta_update_at > load.eta_staleness_threshold_hours

eta_staleness_hours(load) ==
    IF load.last_eta_update_at = None THEN 0 ELSE utcnow - load.last_eta_update_at

stale_sites ==
    {s \in DOMAIN sites :
        sites[s].service_type = "inventory_and_tracking" /\ is_inventory_stale(sites[s])}

stale_loads ==
    {l \in DOMAIN loads :
        loads[l].status \in {"scheduled", "in_transit"} /\ is_eta_stale(loads[l])}

\* rows whose escalation_type is `type`; rows written by the other routes
\* carry no such value
open_of_type(table, type, site_id, load_id) ==
    {e \in DOMAIN table :
        /\ "escalation_type" \in DOMAIN table[e]
        /\ table[e].escalation_type = type
        /\ table[e].status = "open"
        /\ IF type = "stale_inventory" THEN table[e].site_id = site_id
           ELSE table[e].load_id = load_id}

inventory_priority(site) ==
    IF 2 * inventory_staleness_hours(site) > 4 * site.inventory_staleness_threshold_hours
    THEN "critical"
    ELSE IF 2 * inventory_staleness_hours(site) > 3 * site.inventory_staleness_threshold_hours
    THEN "high" ELSE "medium"

eta_priority(load) ==
    IF load.destination_site_id \in DOMAIN sites
       /\ sites[load.destination_site_id].hours_to_runout < HIGH_HOURS
    THEN "critical"
    ELSE IF 2 * eta_staleness_hours(load) > 3 * load.eta_staleness_threshold_hours
    THEN "high" ELSE "medium"

Sweep(table, outcome) == [table |-> table, outcome |-> outcome]

\* columns declared nullable=False without a default
NotNullColumns == {"issue_type", "description"}

\* Escalation(**keywords) followed by db.add and db.commit: a keyword that
\* is no mapped attribute is a TypeError, a NOT NULL column left unset an
\* IntegrityError
add_staleness_escalation(sw, row) ==
    IF ~({"escalation_type", "recommended_action"} \subseteq EscalationColumns)
    THEN Sweep(sw.table, "raised")
    ELSE IF \E c \in NotNullColumns \cap {"issue_type"} : row.issue_type = None
    THEN Sweep(sw.table, "raised")
    ELSE Sweep(insert_row(sw.table, row), "ok")

\* _create_inventory_staleness_escalation: the existence query filters on
\* Escalation.escalation_type
_create_inventory_staleness_escalation(sw, site_id) ==
    IF sw.outcome = "raised" THEN sw
    ELSE IF "escalation_type" \notin EscalationColumns THEN Sweep(sw.table, "raised")
    ELSE IF open_of_type(sw.table, "stale_inventory", site_id, None) # {}
    THEN sw     \* only the description of the existing row is rewritten
    ELSE add_staleness_escalation(sw,
            [escalation_type |-> "stale_inventory"] @@
            Escalation(None, None, site_id, inventory_priority(sites[site_id]),
                       None, "open", FALSE))

\* load.destination_site.hours_to_runout < 24 raises on a missing reading
_create_eta_staleness_escalation(sw, load_id) ==
    IF sw.outcome = "raised" THEN sw
    ELSE IF "escalation_type" \notin EscalationColumns THEN Sweep(sw.table, "raised")
    ELSE IF open_of_type(sw.table, "stale_eta", None, load_id) # {}
    THEN sw
    ELSE IF /\ loads[load_id].destination_site_id \in DOMAIN sites
            /\ sites[loads[load_id].destination_site_id].hours_to_runout = None
    THEN Sweep(sw.table, "raised")
    ELSE add_staleness_escalation(sw,
            [escalation_type |-> "stale_eta"] @@
            Escalation(None, load_id, loads[load_id].destination_site_id,
                       eta_priority(loads[load_id]), None, "open", FALSE))

RECURSIVE check_inventory_staleness(_, _)
check_inventory_staleness(sw, todo) ==
    IF todo = <<>> THEN sw
    ELSE check_inventory_staleness(_create_inventory_staleness_escalation(sw, Head(todo)), Tail(todo))

RECURSIVE check_eta_staleness(_, _)
check_eta_staleness(sw, todo) ==
    IF todo = <<>> THEN sw
    ELSE check_eta_staleness(_create_eta_staleness_escalation(sw, Head(todo)), Tail(todo))

run_staleness_check(table) ==
    check_eta_staleness(
        check_inventory_staleness(Sweep(table, "ok"), Ascending(stale_sites)),
        Ascending(stale_loads))

\* ---- specification SpecEsc: the escalation routes, the sweep and the clock ----
MaxEscalations == 2
MaxEscClock == 3

EscSites ==
    {[s \in {1} |-> StaleSite(t, u, 2, 30)] :
        t \in {"tracking_only", "inventory_and_tracking"}, u \in {None, 0}}

EscLoads ==
    {[l \in {1} |-> StaleLoad(st, 1, u, 4)] :
        st \in {"in_transit", "delivered"}, u \in {None, 0}}

InitEsc ==
    /\ ParserIdle
    /\ ProcIdle
    /\ KGIdle
    /\ AgentIdle
    /\ utcnow = 0
    /\ carriers = <<>>
    /\ sites \in EscSites
    /\ loads \in EscLoads
    /\ escalations = <<>>
    /\ esc_op = "init"
    /\ sweep_outcome = "none"

\* Ids come from max(id) + 1 and stay within MaxEscalations.
CreateEscalation ==
    /\ \A e \in DOMAIN escalations : e < MaxEscalations
    /\ \E site_id \in {1, None} :
        escalations' = create_escalation(escalations, "other", site_id, None)
    /\ esc_op' = "create"
    /\ UNCHANGED <<sweep_outcome, utcnow, carriers, sites, loads, parserVars, kgVars, agentVars, procVars>>

UpdateEscalation ==
    /\ \E escalation_id \in DOMAIN escalations, status \in EscalationStatuses \cup {"unset"} :
        escalations' = update_escalation(escalations, escalation_id, status)
    /\ esc_op' = "update"
    /\ UNCHANGED <<sweep_outcome, utcnow, carriers, sites, loads, parserVars, kgVars, agentVars, procVars>>

AssignEscalation ==
    /\ \E escalation_id \in DOMAIN escalations :
        escalations' = assign_escalation(escalations, escalation_id)
    /\ esc_op' = "assign"
    /\ UNCHANGED <<sweep_outcome, utcnow, carriers, sites, loads, parserVars, kgVars, agentVars, procVars>>

ResolveEscalation ==
    /\ \E escalation_id \in DOMAIN escalations, false_alarm_notes \in BOOLEAN :
        escalations' = resolve_escalation(escalations, escalation_id, false_alarm_notes)
    /\ esc_op' = "resolve"
    /\ UNCHANGED <<sweep_outcome, utcnow, carriers, sites, loads, parserVars, kgVars, agentVars, procVars>>

DeleteEscalation ==
    /\ \E escalation_id \in DOMAIN escalations :
        escalations' = delete_escalation(escalations, escalation_id)
    /\ esc_op' = "delete"
    /\ UNCHANGED <<sweep_outcome, utcnow, carriers, sites, loads, parserVars, kgVars, agentVars, procVars>>

\* run_staleness_check_job / POST /api/staleness/check: an exception leaves
\* the session uncommitted
RunStalenessCheck ==
    /\ LET sw == run_staleness_check(escalations) IN
        /\ escalations' = IF sw.outcome = "raised" THEN escalations ELSE sw.table
        /\ sweep_outcome' = sw.outcome
    /\ esc_op' = "sweep"
    /\ UNCHANGED <<utcnow, carriers, sites, loads, parserVars, kgVars, agentVars, procVars>>

Tick ==
    /\ utcnow < MaxEscClock
    /\ utcnow' = utcnow + 1
    /\ esc_op' = "tick"
    /\ UNCHANGED <<sweep_outcome, carriers, sites, loads, escalations, parserVars, kgVars, agentVars, procVars>>

NextEsc ==
    \/ CreateEscalation
    \/ UpdateEscalation
    \/ AssignEscalation
    \/ ResolveEscalation
    \/ DeleteEscalation
    \/ RunStalenessCheck
    \/ Tick

SpecEsc == InitEsc /\ [][NextEsc]_vars

\* ---- specification SpecSweepRace: two staleness sweeps at once ----
\* run_staleness_check_job runs on a scheduler thread, the staleness routes
\* on request threads; each has its own session and there is no lock.
Sweepers == {"job", "route"}

StaleEntity(type, id) == [type |-> type, id |-> id]

\* the stale sites, then the stale loads, as run_staleness_check visits them
sweep_worklist ==
    LET ss == Ascending(stale_sites)
        ls == Ascending(stale_loads)
    IN  [i \in 1..Len(ss) |-> StaleEntity("stale_inventory", ss[i])]
        \o [i \in 1..Len(ls) |-> StaleEntity("stale_eta", ls[i])]

\* the existence query of _create_*_staleness_escalation: it filters on
\* Escalation.escalation_type
existing_open_columnMapped(table, entity) ==
    IF open_of_type(table, entity.type,
                    IF entity.type = "stale_inventory" THEN entity.id ELSE None,
                    IF entity.type = "stale_eta" THEN entity.id ELSE None) # {}
    THEN "found" ELSE "missing"

existing_open(table, entity) ==
    IF "escalation_type" \notin EscalationColumns THEN "raised"
    ELSE IF open_of_type(table, entity.type,
                         IF entity.type = "stale_inventory" THEN entity.id ELSE None,
                         IF entity.type = "stale_eta" THEN entity.id ELSE None) # {}
    THEN "found" ELSE "missing"

\* the row _create_*_staleness_escalation builds for an entity without one
staleness_row(entity) ==
    IF entity.type = "stale_inventory"
    THEN [escalation_type |-> "stale_inventory"] @@
         Escalation(None, None, entity.id, inventory_priority(sites[entity.id]),
                    None, "open", FALSE)
    ELSE [escalation_type |-> "stale_eta"] @@
         Escalation(None, entity.id, loads[entity.id].destination_site_id,
                    eta_priority(loads[entity.id]), None, "open", FALSE)

SweepAt(at, result) == [at |-> at, result |-> result]

SweepLoads ==
    {[l \in {1} |-> StaleLoad(st, 1, u, 4)] :
        st \in {"scheduled", "in_transit", "delivered"}, u \in {None, 0}}

InitSweepRace ==
    /\ ParserIdle
    /\ KGIdle
    /\ AgentIdle
    /\ KGRaceIdle
    /\ CycleIdle
    /\ SchedIdle
    /\ InboundIdle
    /\ utcnow = 0
    /\ carriers = <<>>
    /\ sites \in EscSites
    /\ loads \in SweepLoads
    /\ escalations = <<>>
    /\ esc_op = "init"
    /\ sweep_outcome = "none"
    /\ sw_pc = [p \in Sweepers |-> "start"]
    /\ sw_found = [p \in Sweepers |-> SweepAt(0, "none")]

SweepRest ==
    <<utcnow, carriers, sites, loads, parserVars, kgVars, agentVars,
      kgRaceVars, cycleVars, schedVars, inboundVars>>

\* check_inventory_staleness / check_eta_staleness: the site and load queries
SweepBegin(p) ==
    /\ sw_pc[p] = "start"
    /\ IF sweep_worklist = <<>>
       THEN /\ sw_pc' = [sw_pc EXCEPT ![p] = "done"]
            /\ sweep_outcome' = "ok"
            /\ UNCHANGED sw_found
       ELSE /\ sw_pc' = [sw_pc EXCEPT ![p] = "query"]
            /\ sw_found' = [sw_found EXCEPT ![p] = SweepAt(1, "none")]
            /\ UNCHANGED sweep_outcome
    /\ esc_op' = "sweep"
    /\ UNCHANGED <<escalations, SweepRest>>

\* _create_*_staleness_escalation for the entity the sweep is at: the
\* existence query, then the description rewrite or the insert and commit
SweepEntity(p) ==
    /\ sw_pc[p] \in {"query", "write"}
    /\ LET entity == sweep_worklist[sw_found[p].at]
           last   == sw_found[p].at = Len(sweep_worklist)
       IN  IF sw_pc[p] = "query"
           THEN LET result == existing_open(escalations, entity) IN
                /\ sw_found' = [sw_found EXCEPT ![p].result = result]
                /\ sw_pc' = [sw_pc EXCEPT ![p] = IF result = "raised" THEN "done" ELSE "write"]
                /\ sweep_outcome' = IF result = "raised" THEN "raised" ELSE sweep_outcome
                /\ UNCHANGED escalations
           ELSE LET sw == IF sw_found[p].result = "found" THEN Sweep(escalations, "ok")
                          ELSE add_staleness_escalation(Sweep(escalations, "ok"),
                                                        staleness_row(entity))
                IN  /\ escalations' = sw.table
                    /\ sweep_outcome' = IF sw.outcome = "raised" \/ last THEN sw.outcome
                                        ELSE sweep_outcome
                    /\ sw_pc' = [sw_pc EXCEPT ![p] =
                                    IF sw.outcome = "raised" \/ last THEN "done" ELSE "query"]
                    /\ sw_found' = [sw_found EXCEPT ![p] =
                                    IF sw.outcome = "raised" \/ last THEN @
                                    ELSE SweepAt(@.at + 1, "none")]
    /\ esc_op' = "sweep"
    /\ UNCHANGED SweepRest

NextSweepRace ==
    \/ \E p \in Sweepers : SweepBegin(p)
    \/ \E p \in Sweepers : SweepEntity(p)

SpecSweepRace == InitSweepRace /\ [][NextSweepRace]_vars

\* =========================================================================
\* Claims
\* =========================================================================

\* The bounds A and B of a range as the text states them, in minutes of the day.
RangeA(b) ==
    IF b.form = "between" THEN (b.n1 \div 100) * 60 + (b.n1 % 100)
    ELSE IF b.form = "h_h_period" THEN to24(b.n1, b.per2) * 60
    ELSE to24(b.n1, b.per1) * 60 + b.mm1
RangeB(b) ==
    IF b.form = "between" THEN (b.n2 \div 100) * 60 + (b.n2 % 100)
    ELSE to24(b.n2, b.per2) * 60 + b.mm2

\* C8: for a range with bounds A < B, extract_time_range returns as its end
\* the 24-hour HHMM string of the later bound B, for every range form and
\* every clock hour 1..12 of either bound.
C8_RangeResolvesToLaterBound ==
    (p_pc = "done" /\ RangeA(p_body) < RangeB(p_body))
        => p_range.end = TimeStr(4, RangeB(p_body) \div 60, RangeB(p_body) % 60)

\* The timestamp a candidate time string stands for: sent_date's day at
\* h:m, moved to the next day when that moment is already past.
FinalTimestamp(base_date, t, now) ==
    IF (base_date \div DAY) * DAY + t.h * HOUR + t.m * 60 < now
    THEN (base_date \div DAY) * DAY + t.h * HOUR + t.m * 60 + DAY
    ELSE (base_date \div DAY) * DAY + t.h * HOUR + t.m * 60
InWindow(ts, now) == now - 1 * HOUR <= ts /\ ts <= now + 72 * HOUR
HourMinuteOk(t) == t.len = 4 /\ t.h \in 0..23 /\ t.m \in 0..59

\* C9: every timestamp the parser returns comes from a candidate with hour in
\* 0..23 and minute in 0..59, is that time of day, and lies between
\* now - 1 h and now + 72 h; a candidate with an out-of-range hour or minute,
\* or whose final timestamp (after the roll to the next day) is outside that
\* window, gives no-result.
C9_ReturnedTimestampWithinGuardrails ==
    p_pc = "done" =>
        /\ p_eta # None =>
            /\ HourMinuteOk(p_cand)
            /\ p_eta = FinalTimestamp(p_sent, p_cand, p_now)
            /\ (p_eta % DAY) = p_cand.h * HOUR + p_cand.m * 60
            /\ InWindow(p_eta, p_now)
        /\ (p_cand # NoTime /\ ~HourMinuteOk(p_cand)) => p_eta = None
        /\ (HourMinuteOk(p_cand) /\ ~InWindow(FinalTimestamp(p_sent, p_cand, p_now), p_now))
                => p_eta = None

\* A valid candidate whose timestamp lands more than 72 h ahead was rejected.
C9_Witness ==
    /\ p_pc = "done"
    /\ HourMinuteOk(p_cand)
    /\ FinalTimestamp(p_sent, p_cand, p_now) > p_now + 72 * HOUR
    /\ p_eta = None

\* A time of day already past was rolled to the next day and returned.
C9_WitnessRolled ==
    /\ p_pc = "done"
    /\ p_eta # None
    /\ p_eta >= (p_sent \div DAY) * DAY + DAY

Stage1Unusable(llm) ==
    \/ llm.kind \in {"no_client", "api_error", "invalid_json", "other_status", "ok_no_time"}
    \/ llm.kind = "ok" /\ ~HourMinuteOk(llm.t)
Stage1Rejects(llm, sent_date, now) ==
    \/ llm.kind \in {"vague", "unknown"}
    \/ /\ llm.kind = "ok"
       /\ HourMinuteOk(llm.t)
       /\ ~InWindow(FinalTimestamp(sent_date, llm.t, now), now)

\* C10: stage 2 runs only when stage 1 is unavailable, raised an error or
\* returned malformed output; when stage 1 classifies the email as vague or
\* unknown, or the guardrail rejects its time, the result is no-result with
\* method "llm" and stage 2 is not run.
C10_Stage1RejectionIsFinal ==
    p_pc = "done" =>
        /\ p_stage2 => Stage1Unusable(p_llm)
        /\ Stage1Rejects(p_llm, p_sent, p_now)
                => (p_eta = None /\ p_method = "llm" /\ ~p_stage2)

\* Stage 1 gave a well-formed time that the guardrail rejected, for a body in
\* which stage 2 would have found a time.
C10_Witness ==
    /\ p_pc = "done"
    /\ p_llm.kind = "ok"
    /\ HourMinuteOk(p_llm.t)
    /\ ~InWindow(FinalTimestamp(p_sent, p_llm.t, p_now), p_now)
    /\ HourMinuteOk(regex_candidate(p_body))
    /\ InWindow(FinalTimestamp(p_sent, regex_candidate(p_body), p_now), p_now)
    /\ p_eta = None
    /\ p_method = "llm"

\* ---- knowledge graph ----

\* C5: after any sequence of knowledge-graph events every carrier's stored
\* reliability_score lies in [0, 1] (0..1000 thousandths), whatever the
\* counters are (more responses than requests included), and it is 0.5
\* whenever the carrier has no recorded delivery.
C5_ReliabilityScoreInUnitInterval ==
    \A c \in DOMAIN carrier_stats :
        /\ carrier_stats[c].reliability_score \in 0..1000
        /\ carrier_stats[c].total_deliveries = 0 => carrier_stats[c].reliability_score = NEUTRAL_SCORE

\* A carrier with deliveries whose responses outnumber its requests, just
\* rescored: the weighted sum exceeds 1 and the stored score is 1.
C5_Witness ==
    /\ kg_op \in {"load_delivered", "eta_email_response"}
    /\ \E c \in DOMAIN carrier_stats :
        /\ carrier_stats[c].total_deliveries > 0
        /\ carrier_stats[c].total_eta_requests > 0
        /\ score_num(carrier_stats[c]) > score_den(carrier_stats[c])
        /\ carrier_stats[c].reliability_score = 1000

\* A carrier with requests and responses but no delivery holds 0.5.
C5_WitnessNoDeliveries ==
    /\ kg_op = "eta_email_response"
    /\ \E c \in DOMAIN carrier_stats :
        /\ carrier_stats[c].total_deliveries = 0
        /\ carrier_stats[c].eta_responses_received > 0
        /\ carrier_stats[c].reliability_score = NEUTRAL_SCORE

\* C6: in every reachable state of a carrier reliability record,
\* flagged_unreliable is true exactly when the stored reliability_score is
\* below 0.4, after each kind of update event.
C6_FlagMatchesStoredScore ==
    \A c \in DOMAIN carrier_stats :
        carrier_stats[c].flagged_unreliable <=> (carrier_stats[c].reliability_score < FLAG_THRESHOLD)

\* C7: neither a carrier's recent_deliveries nor a site's recent_events ever
\* holds more than 10 entries, and an event appended by on_load_delivered or
\* on_escalation_resolved goes to the end of the list, evicting the oldest
\* entry when the list was full and keeping the order of the others.
AppendedFifo(old, new) ==
    /\ Len(new) >= 1
    /\ IF Len(old) < RING_SIZE
       THEN new = Append(old, new[Len(new)])
       ELSE new = Append(SubSeq(old, 2, Len(old)), new[Len(new)])

C7_RingBuffersBoundedFifo ==
    [][ /\ \A c \in DOMAIN carrier_stats' : Len(carrier_stats'[c].recent_deliveries) <= RING_SIZE
        /\ \A s \in DOMAIN site_stats' : Len(site_stats'[s].recent_events) <= RING_SIZE
        /\ kg_op' = "load_delivered" =>
              \E l \in DOMAIN loads :
                  /\ AppendedFifo(_ensure_carrier_stats(carrier_stats, loads[l].carrier_id)
                                      [loads[l].carrier_id].recent_deliveries,
                                  carrier_stats'[loads[l].carrier_id].recent_deliveries)
                  /\ AppendedFifo(_ensure_site_stats(site_stats, loads[l].destination_site_id)
                                      [loads[l].destination_site_id].recent_events,
                                  site_stats'[loads[l].destination_site_id].recent_events)
        /\ kg_op' = "escalation_resolved" =>
              \E s \in DOMAIN site_stats' :
                  AppendedFifo(_ensure_site_stats(site_stats, s)[s].recent_events,
                               site_stats'[s].recent_events)
      ]_vars

\* Both buffers are full, hold rebuilt history at the front and end with
\* two appended events: the second of them arrived at a full buffer.
C7_Witness ==
    /\ kg_op = "load_delivered"
    /\ \E c \in DOMAIN carrier_stats :
        LET b == carrier_stats[c].recent_deliveries IN
        /\ Len(b) = RING_SIZE
        /\ b[1].load_id > 100
        /\ b[RING_SIZE - 1].load_id <= 2
        /\ b[RING_SIZE].load_id <= 2
    /\ \E s \in DOMAIN site_stats :
        LET b == site_stats[s].recent_events IN
        /\ Len(b) = RING_SIZE
        /\ b[1].type = "escalation_resolved" /\ b[1].ref > 100
        /\ b[RING_SIZE].type = "delivery"

\* ---- Tier 1 and the execution gate ----

\* C1: in one Tier-1 pass, every assigned site whose hours_to_runout lies in
\* [0, 12) and which has no active load gets exactly one action, a
\* create_escalation of priority critical, and no other action.
ActionsForSite(s) == {i \in 1..Len(rules_result.actions) : rules_result.actions[i].site_id = s}

CriticalNoLoads(s) ==
    /\ sites[s].hours_to_runout # None
    /\ sites[s].hours_to_runout >= 0
    /\ sites[s].hours_to_runout < CRITICAL_HOURS
    /\ site_loads_of(s) = <<>>

C1_CriticalNoLoadsOneEscalation ==
    cyc_pc = "gate" =>
        \A s \in assigned_sites(AgentId) :
            CriticalNoLoads(s) =>
                /\ Cardinality(ActionsForSite(s)) = 1
                /\ \A i \in ActionsForSite(s) :
                    /\ rules_result.actions[i].action_type = "create_escalation"
                    /\ rules_result.actions[i].priority = "critical"

\* C2: every side effect of an agent is gated by its execution mode, in the
\* Tier-1 executor and in the Tier-2 tools alike: a step persists an
\* escalation attributed to the agent only in full_auto, logs an ETA-request
\* email sent by the agent only in auto_email or full_auto, and in
\* draft_only changes no escalation, no email log and no load.
C2_SideEffectsGatedByMode ==
    [][ LET mode == agents[AgentId].execution_mode IN
        /\ (\E e \in DOMAIN escalations' \ DOMAIN escalations :
                escalations'[e].created_by_agent_id = AgentId) => mode = "full_auto"
        /\ (\E i \in (DOMAIN email_log') \ DOMAIN email_log :
                email_log'[i].sent_by_agent_id = AgentId) => mode \in {"auto_email", "full_auto"}
        /\ mode = "draft_only" =>
                /\ escalations' = escalations
                /\ email_log' = email_log
                /\ loads' = loads
      ]_vars

\* An auto_email cycle that has drafted a Tier-1 escalation, sent email in
\* both tiers and persisted no escalation.
C2_Witness ==
    /\ agents[AgentId].execution_mode = "auto_email"
    /\ cyc_pc = "done"
    /\ \E i \in 1..Len(tier1_executed) : tier1_executed[i] = "escalation_drafted"
    /\ \E i \in 1..Len(tier1_executed) : tier1_executed[i] = "email_sent"
    /\ iteration >= 1
    /\ Len(email_log) > Cardinality({i \in 1..Len(tier1_executed) : tier1_executed[i] = "email_sent"})
    /\ escalations = <<>>

\* A full_auto cycle whose executor and whose create_escalation tool have
\* each persisted an escalation.
C2_WitnessFullAuto ==
    /\ agents[AgentId].execution_mode = "full_auto"
    /\ \E i \in 1..Len(tier1_executed) : tier1_executed[i] = "escalation_created"
    /\ \E e \in DOMAIN escalations : escalations[e].issue_type = "other"

\* A draft_only cycle that has drafted both kinds of action.
C2_WitnessDraft ==
    /\ agents[AgentId].execution_mode = "draft_only"
    /\ cyc_pc = "done"
    /\ iteration >= 2
    /\ \E i \in 1..Len(tier1_executed) : tier1_executed[i] = "escalation_drafted"
    /\ \E i \in 1..Len(tier1_executed) : tier1_executed[i] = "email_drafted"

\* ---- escalations and staleness ----

\* C3: across any sequence of escalation operations an escalation's status
\* only advances along open -> in_progress -> resolved: no step takes a
\* resolved escalation back to in_progress or open, or an in_progress one
\* back to open.
StatusRank(status) == IF status = "open" THEN 0 ELSE IF status = "in_progress" THEN 1 ELSE 2

C3_StatusOnlyAdvances ==
    [][ esc_op' # "delete" =>
            \A e \in DOMAIN escalations \cap DOMAIN escalations' :
                StatusRank(escalations'[e].status) >= StatusRank(escalations[e].status)
      ]_vars

\* C4: a staleness sweep leaves exactly one open escalation per stale site
\* (stale_inventory) and per stale load (stale_eta): it creates the
\* escalation when none is open and creates nothing when one is.
C4_SweepKeepsOneOpenPerStaleEntity ==
    [][ esc_op' = "sweep" =>
            /\ \A s \in stale_sites :
                /\ Cardinality(open_of_type(escalations', "stale_inventory", s, None)) = 1
                /\ open_of_type(escalations, "stale_inventory", s, None) # {} =>
                        open_of_type(escalations', "stale_inventory", s, None)
                            = open_of_type(escalations, "stale_inventory", s, None)
            /\ \A l \in stale_loads :
                /\ Cardinality(open_of_type(escalations', "stale_eta", None, l)) = 1
                /\ open_of_type(escalations, "stale_eta", None, l) # {} =>
                        open_of_type(escalations', "stale_eta", None, l)
                            = open_of_type(escalations, "stale_eta", None, l)
      ]_vars

\* ---- agent cycle: order of the phases, failures, entry points ----

\* C11: in a cycle the reasoning service is called only when the Tier-1 pass
\* of that cycle returned at least one ambiguity flag (a pass with no flag leads
\* to no call), and the Tier-2 phase is entered only by the step in which the
\* Tier-1 actions go through the Execution Gate.
C11_Tier2OnlyWhenFlaggedAfterGate ==
    [][ /\ (iteration' > iteration =>
               cyc_pc = "tier2" /\ rules_result.tier2_flags # <<>>)
        /\ (cyc_pc' = "tier2" /\ cyc_pc # "tier2" =>
               cyc_pc = "gate" /\ rules_result.tier2_flags # <<>>)
        /\ (rules_result'.tier2_flags = <<>> => iteration' = 0) ]_vars

C11_Witness ==
    /\ cyc_pc = "done"
    /\ rules_result.tier2_flags # <<>>
    /\ iteration > 0

C11_WitnessNoFlags ==
    /\ cyc_exit = "returned"
    /\ rules_result.actions # <<>>
    /\ rules_result.tier2_flags = <<>>
    /\ iteration = 0

\* C12: the Tier-2 loop ends whatever the reasoning service answers: a cycle
\* makes at most MAX_ITERATIONS service calls, the loop is left as soon as a
\* response carries no tool call or a complete_check call has been executed,
\* and a cycle that entered the loop comes to its end.
C12_Tier2LoopTerminates ==
    /\ [](iteration <= MAX_ITERATIONS)
    /\ [](last_reply \in {"no_tool_call", "complete_check"} => cyc_pc # "tier2")
    /\ (cyc_pc = "tier2" ~> cyc_pc = "done")

C12_Witness ==
    /\ cyc_pc = "done"
    /\ iteration = MAX_ITERATIONS
    /\ last_reply = "tool_calls"

C12_WitnessCompleteCheck ==
    /\ cyc_pc = "done"
    /\ iteration \in 2..(MAX_ITERATIONS - 1)
    /\ last_reply = "complete_check"

\* What the Tier-1 phase stored is still there in the next state: every
\* escalation row and every email-log row is kept as it is, a load that
\* carries a last_email_sent stamp still carries one, and the list of
\* executed Tier-1 actions is the same.
Tier1EffectsStay ==
    /\ \A e \in DOMAIN escalations : e \in DOMAIN escalations' /\ escalations'[e] = escalations[e]
    /\ Len(email_log') >= Len(email_log)
    /\ SubSeq(email_log', 1, Len(email_log)) = email_log
    /\ \A l \in DOMAIN loads :
          loads[l].last_email_sent # None => loads'[l].last_email_sent # None
    /\ tier1_executed' = tier1_executed

\* C13: when the Tier-2 phase fails (the reasoning service raises or a tool
\* raises), only that phase is given up: the step of the failure and every
\* later step keep what the Tier-1 phase stored, the exception never reaches
\* the outer handler, and the cycle goes on to write its run record as completed.
C13_Tier2FailureAbandonsOnlyTier2 ==
    /\ [][cyc_error' = "tier2" => Tier1EffectsStay]_vars
    /\ [](cyc_error = "tier2" => cyc_pc \in {"finalise", "done"})
    /\ [](cyc_error = "tier2" /\ cyc_pc = "done" =>
             run_record.status = "completed" /\ cyc_exit = "returned")
    /\ (cyc_error = "tier2" ~> run_record.status = "completed")

C13_Witness ==
    /\ cyc_error = "tier2"
    /\ last_reply = "tool_raised"
    /\ run_record.status = "completed"
    /\ email_log # <<>>
    /\ escalations # <<>>
    /\ tier1_executed # <<>>

C13_WitnessServiceError ==
    /\ cyc_error = "tier2"
    /\ last_reply = "service_error"
    /\ run_record.status = "completed"
    /\ \E i \in 1..Len(tier1_executed) : tier1_executed[i] = "email_sent"

C14_WitnessExecutor ==
    /\ cyc_error = "tier1"
    /\ cyc_pc = "done"
    /\ rules_result.tier2_flags # <<>>
    /\ email_log # <<>>
    /\ run_record.status = "failed"

\* C15: no exception raised inside a cycle leaves a cycle entry point: the
\* scheduled tick and the manual trigger both trap it, and the cycle's run
\* record is in a terminal status when the entry point is done.
C15_NoExceptionLeavesEntryPoint ==
    /\ cyc_exit # "propagated"
    /\ (cyc_pc = "done" => run_record.status \in {"completed", "failed"})

\* ---- knowledge graph: rebuild, scores after every event ----

\* a statistics table without its ring buffers
WithoutRecent(table, field) == [k \in DOMAIN table |-> [table[k] EXCEPT ![field] = <<>>]]

WithoutAction(actions, k) == [i \in 1..(Len(actions) - 1) |-> IF i < k THEN actions[i] ELSE actions[i + 1]]

\* C17: when one action of a batch fails in execute_tier1_actions (no
\* dispatcher email, unknown load or carrier id, or a raising send or persist
\* step), that action alone is skipped: what the step of the gate stores is
\* what the batch stores with at most that one action left out, so every later
\* action has been processed.
C17_GateContinuesOnError ==
    [][cyc_pc = "gate" =>
        \E tz \in AppTzOffsets, k \in 0..Len(rules_result.actions) :
            LET kept == IF k = 0 THEN rules_result.actions
                        ELSE WithoutAction(rules_result.actions, k)
                db   == execute_tier1_actions(AgentId, kept, utcnow + tz)
            IN  /\ loads' = db.loads
                /\ escalations' = db.escalations
                /\ email_log' = db.email_log]_vars

\* clamp01(0.7 * on_time_rate + 0.3 * eta_response_rate) in thousandths, from
\* the counters of one carrier row; a carrier with no request counts as
\* answering every request, one with no delivery gets the neutral score
ClaimedReliability(row) ==
    IF row.total_deliveries = 0 THEN NEUTRAL_SCORE
    ELSE LET req == IF row.total_eta_requests > 0 THEN row.total_eta_requests ELSE 1
             ans == IF row.total_eta_requests > 0 THEN row.eta_responses_received ELSE 1
             num == 7 * row.on_time_deliveries * req + 3 * ans * row.total_deliveries
             den == 10 * row.total_deliveries * req
         IN  IF num >= den THEN 1000 ELSE IF num <= 0 THEN 0 ELSE round3(num, den)

\* C18: after every update event on a carrier (load delivered, ETA response
\* received, ETA request sent) the stored reliability_score is the score
\* computed from the carrier's current counters.
C18_StoredScoreMatchesCounters ==
    kg_op \in {"load_delivered", "eta_email_response", "eta_request_sent"} =>
        \A c \in DOMAIN carrier_stats :
            carrier_stats[c].reliability_score = ClaimedReliability(carrier_stats[c])

\* clamp01((total_escalations - false_alarms) / max(total_deliveries, 1)) in thousandths
ClaimedRisk(row) ==
    LET real == row.total_escalations - row.false_alarm_count
        den  == Max(row.total_deliveries_received, 1)
    IN  IF real >= den THEN 1000 ELSE IF real <= 0 THEN 0 ELSE round3(real, den)

\* C19: after every update event on a site (delivery received, escalation
\* resolved, rebuild) the stored risk_score is the score computed from the
\* site's current counters, and lies in [0,1].
C19_StoredRiskMatchesCounters ==
    kg_op \in {"load_delivered", "escalation_resolved", "rebuild"} =>
        \A s \in DOMAIN site_stats :
            /\ site_stats[s].risk_score = ClaimedRisk(site_stats[s])
            /\ site_stats[s].risk_score \in 0..1000

\* ---- Tier 1, rule 5 ----

\* the sites of the agent that are at risk (a reading below the threshold)
\* and to which the carrier has an active load
AtRiskSitesOf(agent_id, carrier_id) ==
    {s \in assigned_sites(agent_id) :
        /\ sites[s].hours_to_runout # None
        /\ sites[s].hours_to_runout < sites[s].runout_threshold_hours
        /\ \E l \in DOMAIN loads :
              /\ loads[l].destination_site_id = s
              /\ loads[l].status \in ActiveStatuses
              /\ loads[l].carrier_id = carrier_id}

\* C20: a Tier-1 pass flags a carrier with multi_site_carrier_risk exactly when
\* the carrier has active loads to more than one distinct at-risk site of the
\* agent, flags it once, and the rule adds no action.
C20_MultiSiteFlagIffDistinctSites ==
    cyc_pc = "gate" =>
        /\ \A c \in DOMAIN carriers :
              LET flagged == {i \in 1..Len(rules_result.tier2_flags) :
                                /\ rules_result.tier2_flags[i].reason = "multi_site_carrier_risk"
                                /\ rules_result.tier2_flags[i].carrier_id = c}
              IN  Cardinality(flagged) =
                      IF Cardinality(AtRiskSitesOf(AgentId, c)) > 1 THEN 1 ELSE 0
        /\ \A i \in 1..Len(rules_result.actions) :
              rules_result.actions[i].rule # "multi_site_carrier_risk"

\* ---- Tier 1, rule 3b: stale ETA ----

\* hours elapsed since a stored UTC timestamp
ElapsedSince(t) == utcnow - t

EtaIsStale(load) ==
    load.last_eta_update = None \/ ElapsedSince(load.last_eta_update) > STALE_ETA_HOURS

EmailedRecently(load) ==
    load.last_email_sent # None /\ ElapsedSince(load.last_email_sent) <= EMAIL_COOLDOWN_HOURS

EtaEmailsFor(load_id) ==
    {i \in 1..Len(rules_result.actions) :
        /\ rules_result.actions[i].action_type = "send_eta_email"
        /\ rules_result.actions[i].load_id = load_id}

\* C21: for a site with active loads and a reading below its threshold, a
\* Tier-1 pass emits a send_eta_email action for a load exactly when the load's
\* ETA is stale (never updated, or updated more than 4 h ago) and no ETA email
\* went out for it in the last 2 h; never more than one such action per load.
C21_StaleEtaEmailExactly ==
    cyc_pc = "gate" =>
        \A s \in assigned_sites(AgentId) :
            (sites[s].hours_to_runout # None
                /\ sites[s].hours_to_runout < sites[s].runout_threshold_hours) =>
            \A l \in DOMAIN loads :
                (loads[l].destination_site_id = s /\ loads[l].status \in ActiveStatuses) =>
                    Cardinality(EtaEmailsFor(l)) =
                        IF EtaIsStale(loads[l]) /\ ~EmailedRecently(loads[l]) THEN 1 ELSE 0

\* ---- staleness monitor: priority, concurrent sweeps ----

\* C22: after each staleness sweep every stale site has an open
\* stale_inventory escalation and every stale load an open stale_eta escalation
\* whose priority is the one the table gives for the entity's staleness at the
\* time of that sweep, whether the sweep created the row or found it.
C22_SweepPriorityFollowsTable ==
    esc_op = "sweep" =>
        /\ \A s \in stale_sites :
              \E e \in open_of_type(escalations, "stale_inventory", s, None) :
                  escalations[e].priority = inventory_priority(sites[s])
        /\ \A l \in stale_loads :
              \E e \in open_of_type(escalations, "stale_eta", None, l) :
                  escalations[e].priority = eta_priority(loads[l])

\* ---- concurrent knowledge-graph events ----
KGAllDone == \A p \in KGProcs : kg_pc[p] = "done"

\* C23: the knowledge-graph rows are updated by read-modify-write with no
\* row lock: when two on_load_delivered events of one carrier have both
\* finished, the stored total_deliveries is one more than the larger of the
\* two totals the sessions read, so two sessions that read the same total
\* leave it grown by 1 only.
C23_ConcurrentDeliveriesLoseAnUpdate ==
    KGAllDone =>
        /\ carrier_stats[1].total_deliveries =
              Max(kg_cs[1].total_deliveries, kg_cs[2].total_deliveries) + 1
        /\ site_stats[1].total_deliveries_received =
              Max(kg_ss[1].total_deliveries_received, kg_ss[2].total_deliveries_received) + 1

\* both events have finished and the counter has grown by 1 only
C23_Witness ==
    /\ KGAllDone
    /\ kg_cs[1].total_deliveries = kg_cs[2].total_deliveries
    /\ carrier_stats[1].total_deliveries = kg_cs[1].total_deliveries + 1

\* ---- overlapping and repeated cycles ----
LoggedEmailsFor(log, load_id) == Cardinality({i \in 1..Len(log) : log[i].load_id = load_id})

SendsIn(result, load_id) ==
    Cardinality({i \in 1..Len(result.actions) :
        /\ result.actions[i].action_type = "send_eta_email"
        /\ result.actions[i].load_id = load_id})

\* C24: two cycles of one agent can overlap, and the gate of each sends the
\* ETA requests its own rules check decided on, whatever the load's
\* last_email_sent has become since: outside DRAFT_ONLY a gate step adds one
\* email per send_eta_email action of its result, so two cycles that checked
\* the same stale load both email its carrier.
C24_OverlappingCyclesBothSend ==
    [][\A c \in EntryPoints :
          (ov_pc[c] = "gate" /\ ov_pc'[c] = "idle"
              /\ agents[AgentId].execution_mode # "draft_only") =>
            \A l \in DOMAIN loads :
                LoggedEmailsFor(email_log', l) =
                    LoggedEmailsFor(email_log, l) + SendsIn(ov_result[c], l)]_vars

\* both entry points have run a cycle and the carrier of load 1 was emailed
\* twice within the same hour
C24_Witness ==
    /\ ov_done = 2
    /\ \A c \in EntryPoints : SendsIn(ov_result[c], 1) = 1
    /\ LoggedEmailsFor(email_log, 1) = 2

OpenEscalationsOn(site_id) ==
    Cardinality({e \in DOMAIN escalations :
        escalations[e].site_id = site_id /\ escalations[e].status = "open"})

NoCycleRunning == \A c \in EntryPoints : ov_pc[c] = "idle"

\* C25: Tier 1 does not deduplicate escalations across cycles: for an agent
\* in FULL_AUTO, every cycle over an unchanged site that is under 12 hours
\* and has no active loads stores a new escalation, so after N cycles the
\* site has N open escalations.
C25_EscalationPerCycle ==
    (NoCycleRunning /\ agents[AgentId].execution_mode = "full_auto") =>
        \A s \in DOMAIN sites :
            (sites[s].hours_to_runout < CRITICAL_HOURS /\ site_loads_of(s) = <<>>) =>
                OpenEscalationsOn(s) = ov_done

\* ---- scheduler ----
\* C26: after any sequence of start, pause, stop, schedule, unschedule and
\* configuration updates the timer triggers cycles for exactly the ACTIVE
\* agents: every ACTIVE agent has a scheduled job at its current
\* check_interval_minutes (one per agent id), and a firing job runs a cycle
\* only for an agent that exists and is ACTIVE.
C26_JobsMatchActiveAgents ==
    \A a \in DOMAIN agents :
        agents[a].status = "active" =>
            /\ a \in DOMAIN sched_jobs
            /\ sched_jobs[a] = agents[a].check_interval_minutes

\* ---- parser against a fixed sent date ----
\* C27: for a body that states a recognisable arrival time, the parser called
\* with a given sent_date returns a timestamp, and its time of day is the
\* stated time (the bound the range matcher hands on, for a range), whatever
\* the wall-clock time of the call is.
C27_ParsedTimeIndependentOfClock ==
    (p_pc = "done" /\ p_llm.kind = "no_client" /\ HourMinuteOk(regex_candidate(p_body))) =>
        /\ p_eta # None
        /\ p_eta % DAY = regex_candidate(p_body).h * HOUR + regex_candidate(p_body).m * 60

\* ---- inbound carrier replies ----
StaleEtaSendsFor(load_id) ==
    {i \in 1..Len(rules_result.actions) :
        /\ rules_result.actions[i].action_type = "send_eta_email"
        /\ rules_result.actions[i].rule = "stale_eta"
        /\ rules_result.actions[i].load_id = load_id}

\* C28: once an inbound carrier email with a valid ETA has been processed for
\* a load, a Tier-1 pass within the next 4 hours emits no stale_eta
\* send_eta_email action for that load.
C28_NoEtaRequestAfterReply ==
    (in_pc = "checked" /\ in_last.success /\ utcnow - in_last.at <= STALE_ETA_HOURS) =>
        StaleEtaSendsFor(in_last.load_id) = {}

\* C29: processing one inbound email creates at most one escalation: the
\* keyword escalation of on_unparseable_email and the coordinator escalation
\* for an unparsed reply never both fire.
C29_OneEscalationPerInboundEmail ==
    in_pc # "ready" => in_last.escalations <= 1

\* ---- concurrent staleness sweeps ----
OpenStalenessEscalations(entity) ==
    open_of_type(escalations, entity.type,
                 IF entity.type = "stale_inventory" THEN entity.id ELSE None,
                 IF entity.type = "stale_eta" THEN entity.id ELSE None)

====
